---- MODULE Spec2Model ----
(***************************************************************************)
(* Unreal-Engine-Dev-Configurator: the resumable setup step pipeline       *)
(* (setup/pipeline.py), the single-instance lock file                      *)
(* (locks/single_instance_lock.py) and the build artifact resolver         *)
(* (ue/artifact_resolver.py), the writers of configuration files and       *)
(* generated artifacts (ue/build_config.py, fix/horde.py,                  *)
(* fix/visual_studio.py), each as a state machine of its own.              *)
(*                                                                         *)
(* The components share no state.  Each has its own specification          *)
(* (Spec: the setup pipeline, LockSpec: the lock, ResolverSpec: the        *)
(* resolver, WriterSpec: the file writers); a specification holds the      *)
(* other components' variables at their idle values.                       *)
(***************************************************************************)
EXTENDS Integers, Sequences, FiniteSets, TLC

VARIABLES
    \* ---- setup pipeline (run_setup) ----
    steps,        \* the List[SetupStep] build_steps returned: records [id, requires_admin]
    opt,          \* SetupOptions: resume, plan_only, apply, dry_run, elevated
    isAdmin,      \* what _is_admin() answers in this process
    stateFile,    \* the step ids in the "completed" object of the state file on disk
    stateWrites,  \* number of save_state calls of this process
    state,        \* runtime.state.completed (its keys)
    loaded,       \* the keys load_state returned at start
    statuses,     \* run_setup's statuses dict: step id -> StepStatus, "UNSET" when absent
    pc,           \* where run_setup is
    idx,          \* position of the for-loops over steps (scan and main loop)
    needsAdmin,   \* the value _needs_admin returned
    log,          \* every check / apply / save performed, in order
    exitCode,     \* run_setup's return value, -1 while running
    \* ---- single-instance lock (acquire_single_instance_lock) ----
    lockFile,     \* the lock file: whether it exists, who created it, its metadata
    lpc,          \* per process: where it is in acquire_single_instance_lock
    meta,         \* per process: the metadata _load_lock_metadata returned
    interactive,  \* per process: what sys.stdin.isatty() answered at a conflict
    repo,         \* per process: its resolved repo root
    cleanup_done, \* per process: the cleanup_done flag of _cleanup
    hist,         \* per process: what it has done so far (see NoHist)
    \* ---- artifact resolver (ArtifactResolver) ----
    files,        \* the files that exist under the project root
    cacheFile,    \* the cache file on disk (see CacheFiles)
    rcache,       \* per resolver instance: its _cache for this root
    built,        \* per resolver instance: whether __init__ has run
    result,       \* the ArtifactResolution of the resolve call that just returned
    lastOp,       \* what the last operation was: "none", "new", "fs", "resolve"
    \* ---- configuration and artifact writers ----
    cfg,          \* the user's BuildConfiguration.xml (see CfgFiles)
    tmpl,         \* the file at generate_build_configuration's target
    vsconfig,     \* the generated <id>_<fingerprint>.vsconfig of each manifest
    backups,      \* the .<stamp>.bak files beside BuildConfiguration.xml, by stamp
    now,          \* the wall clock, in seconds
    update,       \* the BuildConfigUpdate last planned
    lastWr,       \* what the last writer call did (see NoWr)
    \* manifest resolution (manifest/load_manifest.py)
    manifestFiles, \* the manifest files on disk (see Catalogs)
    request,      \* the arguments of the resolve_manifest call
    resolution,   \* what the call returned, or that it raised
    returned,     \* the call has been made
    \* Visual Studio compliance and plan (probe/toolchain.py, fix/visual_studio.py)
    instances,    \* the installed instances, in vswhere's order
    requirement,  \* the manifest's VisualStudioRequirement
    evaluation,   \* what _evaluate_visual_studio returned
    modifyPlan,   \* what plan_vs_modify returned
    vsDone,       \* which of the two has been called
    \* Windows SDK component resolution (fix/visual_studio.py)
    sdkCall,      \* the arguments and the machine of the call (see SdkCalls)
    sdkResult,    \* what resolve_windows_sdk_component returned, or that it raised
    sdkReturned,  \* the call has been made
    \* scoring of check results (probe/base.py)
    checks,       \* the collection of CheckResults handed to score_checks
    score,        \* the (score, count) it returned (see NoScore)
    scored,       \* the call has been made
    \* a scan (cli.py handle_scan, probe/runner.py run_scan)
    scanArgs,     \* the arguments of the scan and what resolve_manifest gave (see ScanArgs)
    scanPc,       \* where the scan is: "cli", "phases", "probes", "returned", "aborted"
    scanPhase,    \* the phase of run_scan's loop, -1 before the first
    bucket,       \* run_scan's bucket of the current phase
    scanResults,  \* run_scan's results dict: phase -> its bucket
    scanError,    \* the exception that left the scan (see NoError)
    scanScore,    \* ScanData.total_score()'s score_checks of the returned scan
    \* probes run in threads (probe/base.py run_parallel)
    functions,    \* the probe callables, each by what it does when called
    slots,        \* run_parallel's results list, None where nothing is stored yet
    threadPc,     \* per thread: "new", "started", "done"
    mainPc,       \* the calling thread: "start", "join", "returned"
    mainIdx,      \* the position of the calling thread's for-loop
    parOut,       \* the list run_parallel returned
    \* the invocation rebuilt for the elevated relaunch (setup/pipeline.py, cli.py)
    options,      \* the SetupOptions of the process that relaunches
    wingetAvailable, \* what toolchain_fix.winget_available answers on this machine
    argv,         \* the arguments _relaunch_elevated hands to the new process
    childOptions, \* the SetupOptions handle_setup builds in the new process
    argsPc,       \* "options", "args", "parsed", "child_loop", "child_relaunch"
    childGate,    \* what the new process finds at its own gate (see NoGate)
    \* waiting on a child process (probe/base.py, ue/ubt_runner.py, fix/visual_studio.py)
    cmdCall,      \* who launches the child, with which timeout, and what the child does (see CmdCalls)
    cmdPc,        \* "call", "waiting", "returned"
    elapsed,      \* clock ticks since the child was started
    cmdResult,    \* what the launcher returned or raised (see NoCmdResult)
    \* the search step of the artifact resolver (ue/artifact_resolver.py)
    rglobbed,     \* the matching files under Engine, in the order rglob yields them
    searchOut,    \* the ArtifactResolution of the search step (see NoSearchOut)
    searchCache,  \* the instance's cache after the step
    searchDone,   \* the step has run
    \* building the missing engine targets (ue/build_targets.py)
    buildPlan,    \* the plan handed to build_missing_targets: one TargetBuildPlan per target
    buildDryRun,  \* its dry_run argument
    buildIdx,     \* the position of its for loop
    buildPc,      \* "loop", "returned"
    runnerCalls,  \* the positions for which runner.run was invoked, in order, with what came of it
    execution     \* the BuildExecution returned (see NoExecution)

pipeVars == <<steps, opt, isAdmin, stateFile, stateWrites, state, loaded,
              statuses, pc, idx, needsAdmin, log, exitCode>>

lockVars == <<lockFile, lpc, meta, interactive, repo, cleanup_done, hist>>

resVars == <<files, cacheFile, rcache, built, result, lastOp>>

wrVars == <<cfg, tmpl, vsconfig, backups, now, update, lastWr>>

manVars == <<manifestFiles, request, resolution, returned>>
vsVars == <<instances, requirement, evaluation, modifyPlan, vsDone>>
sdkVars == <<sdkCall, sdkResult, sdkReturned>>
scoreVars == <<checks, score, scored>>
scanVars == <<scanArgs, scanPc, scanPhase, bucket, scanResults, scanError, scanScore>>
parVars == <<functions, slots, threadPc, mainPc, mainIdx, parOut>>
argsVars == <<options, wingetAvailable, argv, childOptions, argsPc, childGate>>
cmdVars == <<cmdCall, cmdPc, elapsed, cmdResult>>
searchVars == <<rglobbed, searchOut, searchCache, searchDone>>
buildVars == <<buildPlan, buildDryRun, buildIdx, buildPc, runnerCalls, execution>>
vars == <<pipeVars, lockVars, resVars, wrVars, manVars, vsVars, sdkVars, scoreVars, scanVars, parVars, argsVars, cmdVars, searchVars, buildVars>>

notPipe == <<lockVars, resVars, wrVars, manVars, vsVars, sdkVars, scoreVars, scanVars, parVars, argsVars, cmdVars, searchVars, buildVars>>
notLock == <<pipeVars, resVars, wrVars, manVars, vsVars, sdkVars, scoreVars, scanVars, parVars, argsVars, cmdVars, searchVars, buildVars>>
notRes == <<pipeVars, lockVars, wrVars, manVars, vsVars, sdkVars, scoreVars, scanVars, parVars, argsVars, cmdVars, searchVars, buildVars>>
notWr == <<pipeVars, lockVars, resVars, manVars, vsVars, sdkVars, scoreVars, scanVars, parVars, argsVars, cmdVars, searchVars, buildVars>>
notMan == <<pipeVars, lockVars, resVars, wrVars, vsVars, sdkVars, scoreVars, scanVars, parVars, argsVars, cmdVars, searchVars, buildVars>>
notVs == <<pipeVars, lockVars, resVars, wrVars, manVars, sdkVars, scoreVars, scanVars, parVars, argsVars, cmdVars, searchVars, buildVars>>
notSdk == <<pipeVars, lockVars, resVars, wrVars, manVars, vsVars, scoreVars, scanVars, parVars, argsVars, cmdVars, searchVars, buildVars>>
notScore == <<pipeVars, lockVars, resVars, wrVars, manVars, vsVars, sdkVars, scanVars, parVars, argsVars, cmdVars, searchVars, buildVars>>
notScan == <<pipeVars, lockVars, resVars, wrVars, manVars, vsVars, sdkVars, scoreVars, parVars, argsVars, cmdVars, searchVars, buildVars>>
notPar == <<pipeVars, lockVars, resVars, wrVars, manVars, vsVars, sdkVars, scoreVars, scanVars, argsVars, cmdVars, searchVars, buildVars>>
notArgs == <<pipeVars, lockVars, resVars, wrVars, manVars, vsVars, sdkVars, scoreVars, scanVars, parVars, cmdVars, searchVars, buildVars>>
notCmd == <<pipeVars, lockVars, resVars, wrVars, manVars, vsVars, sdkVars, scoreVars, scanVars, parVars, argsVars, searchVars, buildVars>>
notSearch == <<pipeVars, lockVars, resVars, wrVars, manVars, vsVars, sdkVars, scoreVars, scanVars, parVars, argsVars, cmdVars, buildVars>>
notBuild == <<pipeVars, lockVars, resVars, wrVars, manVars, vsVars, sdkVars, scoreVars, scanVars, parVars, argsVars, cmdVars, searchVars>>

----------------------------------------------------------------------------
(* Bounds *)

\* ArtifactResolver instances that share one cache file.
NumResolvers == 2

\* Processes that call acquire_single_instance_lock on the same lock file.
NumProcs == 2

\* Longest step list build_steps returns in the model.
MaxSteps == 2

\* Last second of the wall clock; the clock starts at 0.
MaxTime == 1

\* Most Visual Studio instances on the machine.
MaxInstances == 2

StepIds == 1..MaxSteps

----------------------------------------------------------------------------
(* StepStatus, pipeline.py:46-52 *)

StepStatus == {"PENDING", "RUNNING", "DONE", "SKIPPED", "BLOCKED", "FAILED"}

\* The statuses a step's apply hands back in its StepResult.
ApplyOutcomes == {"DONE", "SKIPPED", "BLOCKED", "FAILED"}

\* is_done as it would be if the loaded state were not consulted.
is_done_never(completed, step_id) == FALSE

\* SetupState.is_done, pipeline.py:81-82
is_done(completed, step_id) == step_id \in completed

\* SetupState.mark_done, pipeline.py:84-85 (the timestamp value is not kept)
mark_done(completed, step_id) == completed \cup {step_id}

\* What the state file on disk holds: no file, text that is not JSON, JSON that
\* is not an object (a list, a number), an object whose "completed" is not an
\* object, or an object with a "completed" object (its keys are kept).
StateFiles ==
    { [kind |-> k, completed |-> {}] :
         k \in {"missing", "invalid", "nonobject", "badcompleted"} }
    \cup { [kind |-> "ok", completed |-> c] : c \in SUBSET StepIds }

\* The step ids a reader finds recorded in the file.
OnDisk(file) == IF file.kind = "ok" THEN file.completed ELSE {}

\* load_state, pipeline.py:147-157: a missing file, a JSONDecodeError and a
\* "completed" that is no dict give an empty state; data.get on JSON that is
\* no object raises AttributeError, which load_state does not catch.
load_state(file) ==
    CASE file.kind = "missing" -> [raised |-> FALSE, completed |-> {}]
      [] file.kind = "invalid" -> [raised |-> FALSE, completed |-> {}]
      [] file.kind = "nonobject" -> [raised |-> TRUE, completed |-> {}]
      [] file.kind = "badcompleted" -> [raised |-> FALSE, completed |-> {}]
      [] OTHER -> [raised |-> FALSE, completed |-> file.completed]

\* save_state, pipeline.py:160-162: the file's new content
save_state(completed) == [kind |-> "ok", completed |-> completed]

\* Step lists: distinct ids in declared order, any requires_admin flags.
StepLists ==
    UNION { { [i \in 1..n |-> [id |-> i, requires_admin |-> adm[i]]] :
                adm \in [1..n -> BOOLEAN] } : n \in 0..MaxSteps }

OptionSets ==
    [resume : BOOLEAN, plan_only : BOOLEAN, apply : BOOLEAN,
     dry_run : BOOLEAN, elevated : BOOLEAN]

Running == {"start", "plan", "confirm", "scan", "gate", "loop",
            "save_check", "save_apply"}

PipeInit ==
    /\ steps \in StepLists
    /\ opt \in OptionSets
    /\ isAdmin \in BOOLEAN
    /\ stateFile \in StateFiles
    /\ stateWrites = 0
    /\ state = {}
    /\ loaded = {}
    /\ statuses = [i \in StepIds |-> "UNSET"]
    /\ pc = "start"
    /\ idx = 1
    /\ needsAdmin = FALSE
    /\ log = <<>>
    /\ exitCode = -1

\* The pipeline's variables while another component is the one modelled.
PipeIdle ==
    /\ steps = <<>>
    /\ opt = [resume |-> FALSE, plan_only |-> FALSE, apply |-> FALSE,
              dry_run |-> FALSE, elevated |-> FALSE]
    /\ isAdmin = FALSE
    /\ stateFile = [kind |-> "missing", completed |-> {}]
    /\ stateWrites = 0
    /\ state = {}
    /\ loaded = {}
    /\ statuses = [i \in StepIds |-> "UNSET"]
    /\ pc = "idle"
    /\ idx = 1
    /\ needsAdmin = FALSE
    /\ log = <<>>
    /\ exitCode = -1

\* One entry of the log: what was invoked, for which step, from which loop, and
\* what it answered (a check: its boolean; an apply: its StepResult status; a
\* save: the ids written; a relaunch: whether the launch was accepted).
Event(kind, id, at, res) == [kind |-> kind, id |-> id, at |-> at, res |-> res]

\* run_setup, pipeline.py:589-590: state = load_state(path) if options.resume
\* else SetupState(); an exception load_state lets through ends run_setup
LoadState ==
    /\ pc = "start"
    /\ LET got == IF opt.resume THEN load_state(stateFile)
                  ELSE [raised |-> FALSE, completed |-> {}] IN
       /\ state' = got.completed
       /\ loaded' = got.completed
       /\ pc' = (IF got.raised THEN "raised" ELSE "plan")
    /\ UNCHANGED <<steps, opt, isAdmin, stateFile, stateWrites, statuses, idx,
                   needsAdmin, log, exitCode>>
    /\ UNCHANGED notPipe

\* run_setup, pipeline.py:602-608: a plan-only run prints the plan and returns 0
PlanOnly ==
    /\ pc = "plan"
    /\ opt.plan_only
    /\ pc' = "returned"
    /\ exitCode' = 0
    /\ UNCHANGED <<steps, opt, isAdmin, stateFile, stateWrites, state, loaded,
                   statuses, idx, needsAdmin, log>>
    /\ UNCHANGED notPipe

\* run_setup, pipeline.py:610-614: with options.apply set the run goes on;
\* without it _prompt_yes_no asks "Proceed with the above steps?", a yes sets
\* options.apply and the run goes on, a no returns 1
Confirm ==
    /\ pc = "plan"
    /\ ~opt.plan_only
    /\ IF opt.apply
       THEN /\ pc' = "scan"
            /\ UNCHANGED <<opt, exitCode, log>>
       ELSE \E yes \in BOOLEAN :
               /\ log' = Append(log, Event("prompt", 0, "confirm", yes))
               /\ IF yes
                  THEN /\ opt' = [opt EXCEPT !.apply = TRUE]
                       /\ pc' = "scan"
                       /\ UNCHANGED exitCode
                  ELSE /\ pc' = "returned"
                       /\ exitCode' = 1
                       /\ UNCHANGED opt
    /\ idx' = 1
    /\ UNCHANGED <<steps, isAdmin, stateFile, stateWrites, state, loaded,
                   statuses, needsAdmin>>
    /\ UNCHANGED notPipe

\* _needs_admin, pipeline.py:665-670, one step of its for loop: a step that is
\* not done and requires admin has its check invoked; the first false check
\* ends the scan with True.
NeedsAdminStep ==
    /\ pc = "scan"
    /\ idx <= Len(steps)
    /\ LET step == steps[idx] IN
       IF ~is_done(state, step.id) /\ step.requires_admin
       THEN \E ok \in BOOLEAN :
               /\ log' = Append(log, Event("check", step.id, "scan", ok))
               /\ IF ok
                  THEN idx' = idx + 1 /\ UNCHANGED <<pc, needsAdmin>>
                  ELSE needsAdmin' = TRUE /\ pc' = "gate" /\ UNCHANGED idx
       ELSE /\ idx' = idx + 1
            /\ UNCHANGED <<pc, needsAdmin, log>>
    /\ UNCHANGED <<steps, opt, isAdmin, stateFile, stateWrites, state, loaded,
                   statuses, exitCode>>
    /\ UNCHANGED notPipe

\* _needs_admin, pipeline.py:670: the loop ran out, return False
NeedsAdminEnd ==
    /\ pc = "scan"
    /\ idx > Len(steps)
    /\ needsAdmin' = FALSE
    /\ pc' = "gate"
    /\ UNCHANGED <<steps, opt, isAdmin, stateFile, stateWrites, state, loaded,
                   statuses, idx, log, exitCode>>
    /\ UNCHANGED notPipe

\* The hand-over condition with the admin test the wrong way round.
ShouldRelaunch_flipped ==
    needsAdmin /\ isAdmin /\ ~opt.dry_run /\ ~opt.elevated

\* run_setup, pipeline.py:616: the condition under which the run is handed
\* over, by what _needs_admin and _is_admin answer and the options
should_relaunch(needs, admin, o) ==
    needs /\ ~admin /\ ~o.dry_run /\ ~o.elevated

\* The condition in the pipeline's own variables
ShouldRelaunch ==
    should_relaunch(needsAdmin, isAdmin, opt)

\* What the ShellExecuteW call of pipeline.py:682 does: it raises (as does
\* ctypes.windll where there is none), or it answers a code; codes up to 32
\* are its failures (5: access denied, the prompt refused).
ShellExecuteW == [raised : BOOLEAN, ret : {5, 32, 33}]

\* _relaunch_elevated as it would be if the answered code were not looked at
_relaunch_elevated_unchecked(answer) ==
    IF answer.raised THEN [code |-> 1, message |-> "Unable to relaunch with elevation"]
    ELSE [code |-> 0, message |-> ""]

\* _relaunch_elevated, pipeline.py:681-689: its return value and the failure
\* it logs
_relaunch_elevated(answer) ==
    IF answer.raised THEN [code |-> 1, message |-> "Unable to relaunch with elevation"]
    ELSE IF answer.ret <= 32 THEN [code |-> 1, message |-> "Elevation cancelled or failed."]
    ELSE [code |-> 0, message |-> ""]

\* run_setup, pipeline.py:616-617 with _relaunch_elevated, pipeline.py:673-689:
\* ShellExecuteW raises or answers <= 32 (return 1), or answers > 32 (return 0)
RelaunchElevated ==
    /\ pc = "gate"
    /\ ShouldRelaunch
    /\ \E answer \in ShellExecuteW :
          LET end == _relaunch_elevated(answer)
          IN  /\ exitCode' = end.code
              /\ log' = Append(log, Event("relaunch", 0, "gate",
                                          [answer |-> answer, message |-> end.message]))
    /\ pc' = "relaunched"
    /\ UNCHANGED <<steps, opt, isAdmin, stateFile, stateWrites, state, loaded,
                   statuses, idx, needsAdmin>>
    /\ UNCHANGED notPipe

\* run_setup, pipeline.py:619: no hand-over, the main loop starts
EnterLoop ==
    /\ pc = "gate"
    /\ ~ShouldRelaunch
    /\ idx' = 1
    /\ pc' = "loop"
    /\ UNCHANGED <<steps, opt, isAdmin, stateFile, stateWrites, state, loaded,
                   statuses, needsAdmin, log, exitCode>>
    /\ UNCHANGED notPipe

\* run_setup, pipeline.py:621-623: a step the state marks done
LoopDone ==
    /\ pc = "loop"
    /\ idx <= Len(steps)
    /\ is_done(state, steps[idx].id)
    /\ statuses' = [statuses EXCEPT ![steps[idx].id] = "DONE"]
    /\ idx' = idx + 1
    /\ UNCHANGED <<steps, opt, isAdmin, stateFile, stateWrites, state, loaded,
                   pc, needsAdmin, log, exitCode>>
    /\ UNCHANGED notPipe

\* run_setup, pipeline.py:624-626: check answered true
LoopCheckTrue ==
    /\ pc = "loop"
    /\ idx <= Len(steps)
    /\ ~is_done(state, steps[idx].id)
    /\ log' = Append(log, Event("check", steps[idx].id, "loop", TRUE))
    /\ statuses' = [statuses EXCEPT ![steps[idx].id] = "DONE"]
    /\ state' = mark_done(state, steps[idx].id)
    /\ pc' = "save_check"
    /\ UNCHANGED <<steps, opt, isAdmin, stateFile, stateWrites, loaded, idx,
                   needsAdmin, exitCode>>
    /\ UNCHANGED notPipe

\* The write one save_state call makes.
WriteState ==
    /\ stateFile' = save_state(state)
    /\ stateWrites' = stateWrites + 1
    /\ log' = Append(log, Event("save", steps[idx].id, "loop", state))

\* The check-true branch as it would be without its save_state call.
SaveAfterCheck_nowrite ==
    /\ pc = "save_check"
    /\ idx' = idx + 1
    /\ pc' = "loop"
    /\ UNCHANGED <<steps, opt, isAdmin, stateFile, stateWrites, state, loaded,
                   statuses, needsAdmin, log, exitCode>>
    /\ UNCHANGED notPipe

\* run_setup, pipeline.py:627-628: save_state, continue
SaveAfterCheck ==
    /\ pc = "save_check"
    /\ WriteState
    /\ idx' = idx + 1
    /\ pc' = "loop"
    /\ UNCHANGED <<steps, opt, isAdmin, state, loaded, statuses, needsAdmin,
                   exitCode>>
    /\ UNCHANGED notPipe

\* run_batch, pipeline.py:359-376, the apply of the steps that run one of the
\* engine's scripts: the status of its StepResult, by whether the script is
\* there, whether the run is a dry run, and the script's exit code.  The dry
\* run answers DONE without running anything; _apply_prereq (pipeline.py:
\* 473-475), the build step (pipeline.py:522-525) and the winget installs
\* (fix/toolchain.py:88-91 through pipeline.py:301) do the same.
run_batch(script_exists, dry_run, returncode) ==
    IF ~script_exists THEN "BLOCKED"
    ELSE IF dry_run THEN "DONE"
    ELSE IF returncode = 0 THEN "DONE"
    ELSE "FAILED"

\* The check-false branch as it would be if a SKIPPED step were marked done
\* like a DONE one.
LoopCheckFalse_skipped_is_done ==
    /\ pc = "loop"
    /\ idx <= Len(steps)
    /\ ~is_done(state, steps[idx].id)
    /\ IF opt.plan_only \/ ~opt.apply
       THEN /\ log' = Append(log, Event("check", steps[idx].id, "loop", FALSE))
            /\ statuses' = [statuses EXCEPT ![steps[idx].id] = "PENDING"]
            /\ idx' = idx + 1
            /\ UNCHANGED <<pc, state>>
       ELSE \E outcome \in ApplyOutcomes :
               /\ log' = log \o <<Event("check", steps[idx].id, "loop", FALSE),
                                  Event("apply", steps[idx].id, "loop", outcome)>>
               /\ statuses' = [statuses EXCEPT ![steps[idx].id] = outcome]
               /\ state' = (IF outcome \in {"DONE", "SKIPPED"}
                            THEN mark_done(state, steps[idx].id) ELSE state)
               /\ pc' = "save_apply"
               /\ UNCHANGED idx
    /\ UNCHANGED <<steps, opt, isAdmin, stateFile, stateWrites, loaded,
                   needsAdmin, exitCode>>
    /\ UNCHANGED notPipe

\* run_setup, pipeline.py:624-638: check answered false; in a preview the step
\* stays PENDING, otherwise apply runs and its StepResult sets the status
LoopCheckFalse ==
    /\ pc = "loop"
    /\ idx <= Len(steps)
    /\ ~is_done(state, steps[idx].id)
    /\ IF opt.plan_only \/ ~opt.apply
       THEN /\ log' = Append(log, Event("check", steps[idx].id, "loop", FALSE))
            /\ statuses' = [statuses EXCEPT ![steps[idx].id] = "PENDING"]
            /\ idx' = idx + 1
            /\ UNCHANGED <<pc, state>>
       ELSE \E outcome \in ApplyOutcomes :
               /\ log' = log \o <<Event("check", steps[idx].id, "loop", FALSE),
                                  Event("apply", steps[idx].id, "loop", outcome)>>
               /\ statuses' = [statuses EXCEPT ![steps[idx].id] = outcome]
               /\ state' = (IF outcome = "DONE"
                            THEN mark_done(state, steps[idx].id) ELSE state)
               /\ pc' = "save_apply"
               /\ UNCHANGED idx
    /\ UNCHANGED <<steps, opt, isAdmin, stateFile, stateWrites, loaded,
                   needsAdmin, exitCode>>
    /\ UNCHANGED notPipe

\* The end of an iteration as it would be if a FAILED or BLOCKED step broke
\* out of the loop.
SaveAfterApply_abort ==
    /\ pc = "save_apply"
    /\ WriteState
    /\ idx' = (IF statuses[steps[idx].id] \in {"FAILED", "BLOCKED"}
               THEN Len(steps) + 1 ELSE idx + 1)
    /\ pc' = "loop"
    /\ UNCHANGED <<steps, opt, isAdmin, state, loaded, statuses, needsAdmin,
                   exitCode>>
    /\ UNCHANGED notPipe

\* run_setup, pipeline.py:639: save_state after apply, whatever its outcome
SaveAfterApply ==
    /\ pc = "save_apply"
    /\ WriteState
    /\ idx' = idx + 1
    /\ pc' = "loop"
    /\ UNCHANGED <<steps, opt, isAdmin, state, loaded, statuses, needsAdmin,
                   exitCode>>
    /\ UNCHANGED notPipe

\* run_setup, pipeline.py:642-650: the loop is over, final scan and report
Finish ==
    /\ pc = "loop"
    /\ idx > Len(steps)
    /\ pc' = "finished"
    /\ exitCode' = 0
    /\ UNCHANGED <<steps, opt, isAdmin, stateFile, stateWrites, state, loaded,
                   statuses, idx, needsAdmin, log>>
    /\ UNCHANGED notPipe

\* The process is killed or interrupted between two statements of run_setup:
\* memory is lost, the state file stays as last written.
Crash ==
    /\ pc \in Running
    /\ pc' = "crashed"
    /\ UNCHANGED <<steps, opt, isAdmin, stateFile, stateWrites, state, loaded,
                   statuses, idx, needsAdmin, log, exitCode>>
    /\ UNCHANGED notPipe

PipeNext ==
    \/ LoadState
    \/ PlanOnly
    \/ Confirm
    \/ NeedsAdminStep
    \/ NeedsAdminEnd
    \/ RelaunchElevated
    \/ EnterLoop
    \/ LoopDone
    \/ LoopCheckTrue
    \/ SaveAfterCheck
    \/ LoopCheckFalse
    \/ SaveAfterApply
    \/ Finish
    \/ Crash

----------------------------------------------------------------------------
(* The single-instance lock, locks/single_instance_lock.py *)

Procs == 1..NumProcs

\* Process ids a lock file may name besides the modelled processes: one of a
\* process that no longer exists, one of a live process that is not among the
\* acquirers, and NoPid for a file without an integer "pid".
DeadPid == NumProcs + 1
LivePid == NumProcs + 2
NoPid == NumProcs + 3

ThisHost == "host-a"
OtherHost == "host-b"
Repos == {"repo-a", "repo-b"}
LockPath == "uecfg.lock"

\* No lock file at the path.
NoFile == [exists |-> FALSE, creator |-> 0, pid |-> NoPid, hostname |-> "", repo_root |-> ""]

\* A lock file whose text is not the JSON metadata: just created and not yet
\* written, or unreadable.  _load_lock_metadata gives None and the caller {}.
BlankFile(creator) ==
    [exists |-> TRUE, creator |-> creator, pid |-> NoPid, hostname |-> "", repo_root |-> ""]

\* _build_metadata, single_instance_lock.py:101-117: the fields the acquirer
\* reads back later (pid, hostname, repo_root)
_build_metadata(p) ==
    [exists |-> TRUE, creator |-> p, pid |-> p, hostname |-> ThisHost, repo_root |-> repo[p]]

\* Lock files left by earlier runs or other programs (creator 0).
ForeignFiles ==
    { [exists |-> TRUE, creator |-> 0, pid |-> q, hostname |-> h, repo_root |-> r] :
        q \in {DeadPid, LivePid}, h \in {ThisHost, OtherHost}, r \in Repos }
    \cup { BlankFile(0) }

\* A process that runs: it has started and has neither returned, raised out of
\* acquire_single_instance_lock nor been killed.
LiveStates == {"create", "write", "exists", "judge", "unlink_stale", "conflict",
               "body", "restored", "readonly"}
EndStates == {"done", "raised", "error", "killed"}

\* _pid_exists as it would be if every process id were taken to be running.
_pid_exists_always(pid) == TRUE

\* _pid_exists, single_instance_lock.py:40-64
_pid_exists(pid) ==
    \/ pid = LivePid
    \/ pid \in Procs /\ lpc[pid] \in LiveStates

\* _load_lock_metadata, single_instance_lock.py:76-81, with the "or {}" of its
\* caller (line 205): a file that is gone or unparseable reads as no metadata
_load_lock_metadata(file) ==
    IF file.exists
    THEN [pid |-> file.pid, hostname |-> file.hostname, repo_root |-> file.repo_root]
    ELSE [pid |-> NoPid, hostname |-> "", repo_root |-> ""]

NoMeta == [pid |-> NoPid, hostname |-> "", repo_root |-> ""]

\* acquire_single_instance_lock, single_instance_lock.py:214-220: the reason a
\* lock is taken for stale, "" when there is none
stale_reason(p, m) ==
    IF m.pid # NoPid /\ ~_pid_exists(m.pid) THEN "pid"
    ELSE IF m.hostname # "" /\ m.hostname # ThisHost THEN "hostname"
    ELSE IF m.repo_root # "" /\ m.repo_root # repo[p] THEN "repo_root"
    ELSE ""

\* What a process has done so far: entered the protected body holding the lock
\* (ranBody), continued without the lock (readonly), the stale_reason of its
\* last look at the lock (stale), the reason of the stale lock it removed
\* (recovered), removed a lock on the operator's word (forced), was shown the
\* prompt (prompted), received a signal (signalled), received
\* it while _handler was not installed (unguarded), and the SingleInstanceError it raised (error, "" for none, and its lock_path);
\* and whether the block under the with statement has changed the machine
\* (mutated).
NoHist == [ranBody |-> FALSE, readonly |-> FALSE, stale |-> "", recovered |-> "",
           forced |-> FALSE, prompted |-> FALSE, signalled |-> FALSE,
           unguarded |-> FALSE, mutated |-> FALSE,
           error |-> "", lock_path |-> ""]

LockInit ==
    /\ lockFile \in {NoFile} \cup ForeignFiles
    /\ lpc = [p \in Procs |-> "idle"]
    /\ meta = [p \in Procs |-> NoMeta]
    /\ interactive = [p \in Procs |-> FALSE]
    /\ repo = [p \in Procs |-> "repo-a"]
    /\ cleanup_done = [p \in Procs |-> FALSE]
    /\ hist = [p \in Procs |-> NoHist]

LockIdle ==
    /\ lockFile = NoFile
    /\ lpc = [p \in Procs |-> "idle"]
    /\ meta = [p \in Procs |-> NoMeta]
    /\ interactive = [p \in Procs |-> FALSE]
    /\ repo = [p \in Procs |-> "repo-a"]
    /\ cleanup_done = [p \in Procs |-> FALSE]
    /\ hist = [p \in Procs |-> NoHist]

\* A process calls acquire_single_instance_lock (lines 167-175): its repo root
\* is what it is for the whole call.
Start(p) ==
    /\ lpc[p] = "idle"
    /\ \E r \in Repos : repo' = [repo EXCEPT ![p] = r]
    /\ lpc' = [lpc EXCEPT ![p] = "create"]
    /\ UNCHANGED <<lockFile, meta, interactive, cleanup_done, hist>>
    /\ UNCHANGED notLock

\* Lines 178-179: os.open with O_CREAT | O_EXCL creates the file, or raises
\* FileExistsError when the path exists.
TryCreate(p) ==
    /\ lpc[p] = "create"
    /\ IF lockFile.exists
       THEN /\ lpc' = [lpc EXCEPT ![p] = "exists"]
            /\ UNCHANGED lockFile
       ELSE /\ lockFile' = BlankFile(p)
            /\ lpc' = [lpc EXCEPT ![p] = "write"]
    /\ UNCHANGED <<meta, interactive, repo, cleanup_done, hist>>
    /\ UNCHANGED notLock

\* Lines 180-199: the metadata is written through the open descriptor (into the
\* file at the path only while that is still the file this process created),
\* the signal handlers are installed and the body is entered.
EnterBody(p) ==
    /\ lpc[p] = "write"
    /\ lockFile' = (IF lockFile.exists /\ lockFile.creator = p
                    THEN _build_metadata(p) ELSE lockFile)
    /\ lpc' = [lpc EXCEPT ![p] = "body"]
    /\ hist' = [hist EXCEPT ![p].ranBody = TRUE]
    /\ UNCHANGED <<meta, interactive, repo, cleanup_done>>
    /\ UNCHANGED notLock

\* Line 205: after FileExistsError the file is read
LoadMetadata(p) ==
    /\ lpc[p] = "exists"
    /\ meta' = [meta EXCEPT ![p] = _load_lock_metadata(lockFile)]
    /\ lpc' = [lpc EXCEPT ![p] = "judge"]
    /\ UNCHANGED <<lockFile, interactive, repo, cleanup_done, hist>>
    /\ UNCHANGED notLock

\* Lines 206-222 and 235: stale or not; for a lock that is not stale
\* sys.stdin.isatty() is asked, and it answers for the process: one that was
\* shown the prompt before has a terminal.
Judge(p) ==
    /\ lpc[p] = "judge"
    /\ IF stale_reason(p, meta[p]) # ""
       THEN /\ lpc' = [lpc EXCEPT ![p] = "unlink_stale"]
            /\ UNCHANGED interactive
       ELSE /\ lpc' = [lpc EXCEPT ![p] = "conflict"]
            /\ \E tty \in (IF hist[p].prompted THEN {TRUE} ELSE BOOLEAN) :
                  interactive' = [interactive EXCEPT ![p] = tty]
    /\ hist' = [hist EXCEPT ![p].stale = stale_reason(p, meta[p])]
    /\ UNCHANGED <<lockFile, meta, repo, cleanup_done>>
    /\ UNCHANGED notLock

\* Lines 223-233: the stale lock is unlinked and the while loop goes round; an
\* OSError of unlink (the file is gone already) becomes SingleInstanceError.
UnlinkStale(p) ==
    /\ lpc[p] = "unlink_stale"
    /\ IF lockFile.exists
       THEN /\ lockFile' = NoFile
            /\ lpc' = [lpc EXCEPT ![p] = "create"]
            /\ hist' = [hist EXCEPT ![p].recovered = hist[p].stale]
       ELSE /\ lpc' = [lpc EXCEPT ![p] = "error"]
            /\ hist' = [hist EXCEPT ![p].error = "unable_to_clear",
                                    ![p].lock_path = LockPath]
            /\ UNCHANGED lockFile
    /\ meta' = [meta EXCEPT ![p] = NoMeta]
    /\ UNCHANGED <<interactive, repo, cleanup_done>>
    /\ UNCHANGED notLock

\* Lines 235-244: without a terminal the conflict is raised at once
\* The conflict as it would be if a live holder's lock were cleared silently.
ConflictNonInteractive_bypass(p) ==
    /\ lpc[p] = "conflict"
    /\ ~interactive[p]
    /\ lockFile' = NoFile
    /\ lpc' = [lpc EXCEPT ![p] = "create"]
    /\ meta' = [meta EXCEPT ![p] = NoMeta]
    /\ UNCHANGED <<interactive, repo, cleanup_done, hist>>
    /\ UNCHANGED notLock

ConflictNonInteractive(p) ==
    /\ lpc[p] = "conflict"
    /\ ~interactive[p]
    /\ lpc' = [lpc EXCEPT ![p] = "error"]
    /\ hist' = [hist EXCEPT ![p].error = "another_instance",
                            ![p].lock_path = LockPath]
    /\ meta' = [meta EXCEPT ![p] = NoMeta]
    /\ UNCHANGED <<lockFile, interactive, repo, cleanup_done>>
    /\ UNCHANGED notLock

\* Lines 246-264: the operator answers the prompt with "" or 1: exit
PromptExit(p) ==
    /\ lpc[p] = "conflict"
    /\ interactive[p]
    /\ lpc' = [lpc EXCEPT ![p] = "error"]
    /\ hist' = [hist EXCEPT ![p].prompted = TRUE,
                            ![p].error = "exit_chosen",
                            ![p].lock_path = LockPath]
    /\ meta' = [meta EXCEPT ![p] = NoMeta]
    /\ UNCHANGED <<lockFile, interactive, repo, cleanup_done>>
    /\ UNCHANGED notLock

\* Lines 266-276: the operator answers 2: the lock is unlinked and the while
\* loop goes round; an OSError of unlink becomes SingleInstanceError.
PromptForceClear(p) ==
    /\ lpc[p] = "conflict"
    /\ interactive[p]
    /\ IF lockFile.exists
       THEN /\ lockFile' = NoFile
            /\ lpc' = [lpc EXCEPT ![p] = "create"]
            /\ hist' = [hist EXCEPT ![p].prompted = TRUE, ![p].forced = TRUE]
       ELSE /\ lpc' = [lpc EXCEPT ![p] = "error"]
            /\ hist' = [hist EXCEPT ![p].prompted = TRUE,
                                    ![p].error = "unable_to_remove",
                                    ![p].lock_path = LockPath]
            /\ UNCHANGED lockFile
    /\ meta' = [meta EXCEPT ![p] = NoMeta]
    /\ UNCHANGED <<interactive, repo, cleanup_done>>
    /\ UNCHANGED notLock

\* Lines 278-281: the operator answers 3: the body runs without the lock
PromptReadOnly(p) ==
    /\ lpc[p] = "conflict"
    /\ interactive[p]
    /\ lpc' = [lpc EXCEPT ![p] = "readonly"]
    /\ hist' = [hist EXCEPT ![p].prompted = TRUE, ![p].readonly = TRUE]
    /\ meta' = [meta EXCEPT ![p] = NoMeta]
    /\ UNCHANGED <<lockFile, interactive, repo, cleanup_done>>
    /\ UNCHANGED notLock

\* _cleanup, lines 185-195: once per acquisition, unlink whatever is at the
\* path; a missing file is not an error.  The file after the call.
_cleanup(p) == IF cleanup_done[p] THEN lockFile ELSE NoFile

\* Lines 198-201: the body returns or raises, and finally restores the signal
\* handlers that were there before (_restore_signal_handlers, lines 148-153).
ExitBody(p) ==
    /\ lpc[p] = "body"
    /\ lpc' = [lpc EXCEPT ![p] = "restored"]
    /\ UNCHANGED <<lockFile, meta, interactive, repo, cleanup_done, hist>>
    /\ UNCHANGED notLock

\* Line 202-203: finally runs _cleanup, and the context manager returns or
\* lets the body's exception go on.
FinallyCleanup(p) ==
    /\ lpc[p] = "restored"
    /\ \E how \in {"done", "raised"} : lpc' = [lpc EXCEPT ![p] = how]
    /\ lockFile' = _cleanup(p)
    /\ cleanup_done' = [cleanup_done EXCEPT ![p] = TRUE]
    /\ UNCHANGED <<meta, interactive, repo, hist>>
    /\ UNCHANGED notLock

\* What the interpreter had installed for a signal before _install_signal_cleanup
\* replaced it: SIG_IGN (or None), SIG_DFL, or a Python callable such as
\* default_int_handler, which raises in the main thread.
PriorHandlers == {"SIG_IGN", "SIG_DFL", "callable"}

\* _handler, lines 124-138, on SIGINT or SIGTERM in the body: _cleanup first;
\* then a prior SIG_IGN or None returns into the body, a prior SIG_DFL
\* re-raises the signal with the default action (the process ends), a prior
\* callable is called and raises out of the body, through finally.
Signal(p) ==
    /\ lpc[p] = "body"
    /\ \E prior \in PriorHandlers :
          lpc' = [lpc EXCEPT ![p] = CASE prior = "SIG_IGN" -> "body"
                                      [] prior = "SIG_DFL" -> "killed"
                                      [] OTHER -> "raised"]
    /\ lockFile' = _cleanup(p)
    /\ cleanup_done' = [cleanup_done EXCEPT ![p] = TRUE]
    /\ hist' = [hist EXCEPT ![p].signalled = TRUE]
    /\ UNCHANGED <<meta, interactive, repo>>
    /\ UNCHANGED notLock

\* SIGINT or SIGTERM while _handler is not installed: after os.open created the
\* file and before _install_signal_cleanup (lines 179-197), or in finally after
\* _restore_signal_handlers and before _cleanup (lines 201-202).  The prior
\* disposition acts: SIG_DFL ends the process, a callable such as
\* default_int_handler raises, and the exception leaves the function (it is not
\* FileExistsError; in finally it pre-empts _cleanup).  A signal that is
\* ignored changes nothing.
SignalUnguarded(p) ==
    /\ lpc[p] \in {"write", "restored"}
    /\ \E prior \in PriorHandlers \ {"SIG_IGN"} :
          lpc' = [lpc EXCEPT ![p] = IF prior = "SIG_DFL" THEN "killed" ELSE "raised"]
    /\ hist' = [hist EXCEPT ![p].signalled = TRUE, ![p].unguarded = TRUE]
    /\ UNCHANGED <<lockFile, meta, interactive, repo, cleanup_done>>
    /\ UNCHANGED notLock

\* Line 281: the body that ran without the lock ends; nothing is cleaned up
ExitReadOnly(p) ==
    /\ lpc[p] = "readonly"
    /\ lpc' = [lpc EXCEPT ![p] = "done"]
    /\ UNCHANGED <<lockFile, meta, interactive, repo, cleanup_done, hist>>
    /\ UNCHANGED notLock

\* Lines 199 and 280: both yields are a bare `yield`, so the block under the
\* with statement receives None whether the lock is held or not, and runs as
\* the caller wrote it: here a block that installs or writes something.
BodyMutates(p) ==
    /\ lpc[p] \in {"body", "readonly"}
    /\ ~hist[p].mutated
    /\ hist' = [hist EXCEPT ![p].mutated = TRUE]
    /\ UNCHANGED <<lockFile, lpc, meta, interactive, repo, cleanup_done>>
    /\ UNCHANGED notLock

LockNext ==
    \E p \in Procs :
        \/ Start(p)
        \/ TryCreate(p)
        \/ EnterBody(p)
        \/ LoadMetadata(p)
        \/ Judge(p)
        \/ UnlinkStale(p)
        \/ ConflictNonInteractive(p)
        \/ PromptExit(p)
        \/ PromptForceClear(p)
        \/ PromptReadOnly(p)
        \/ ExitBody(p)
        \/ FinallyCleanup(p)
        \/ Signal(p)
        \/ SignalUnguarded(p)
        \/ ExitReadOnly(p)
        \/ BodyMutates(p)

----------------------------------------------------------------------------
(* Claims about the single-instance lock, checked under LockSpec *)

\* The processes inside the protected body, holding the lock.
InBody == { p \in Procs : lpc[p] = "body" }

\* C5: with every acquirer live, on this host and of one repo root, with no lock
\* force-cleared by an operator, no read-only continuation (and no signal
\* delivered to a holder), at most one process is inside the protected body,
\* also when several acquirers recover the same stale lock at the same time.
C5_AtMostOneInBody ==
    ( /\ \A p \in Procs : ~hist[p].forced /\ ~hist[p].readonly /\ ~hist[p].signalled
      /\ \A p, q \in Procs : (lpc[p] # "idle" /\ lpc[q] # "idle") => repo[p] = repo[q] )
    => Cardinality(InBody) <= 1

\* Process p is the only one that has called acquire_single_instance_lock.
Lone(p) == \A q \in Procs \ {p} : lpc[q] = "idle"

LiveSameHolder(p) ==
    /\ meta[p].pid # NoPid
    /\ _pid_exists(meta[p].pid)
    /\ meta[p].hostname = ThisHost
    /\ meta[p].repo_root = repo[p]

OthersGone(q) ==
    /\ \A p \in Procs \ {q} : lpc[p] \in EndStates \cup {"idle"}
    /\ \E p \in Procs \ {q} : hist[p].ranBody

\* C8: a process that entered the body holding the lock has run _cleanup by the
\* time it has left, whichever way it left (return, exception, SIGINT or
\* SIGTERM); and once every holder has left, no lock file is in the way of the
\* next acquirer's exclusive create.
C8_LockRemovedOnEveryExit ==
    /\ \A p \in Procs :
          (hist[p].ranBody /\ lpc[p] \in EndStates) => cleanup_done[p]
    /\ \A q \in Procs :
          (OthersGone(q) /\ lpc[q] \in {"idle", "create"}) => ~lockFile.exists
    /\ (\A p \in Procs : lpc[p] \in EndStates \cup {"idle"})
          /\ (\E p \in Procs : hist[p].ranBody) => ~lockFile.exists

----------------------------------------------------------------------------
(* The artifact resolver, ue/artifact_resolver.py *)

Resolvers == 1..NumResolvers

\* The characters of the names the model's paths are made of, as code points.
Chars(s) ==
    CASE s = "Engine" -> <<69, 110, 103, 105, 110, 101>>
      [] s = "Binaries" -> <<66, 105, 110, 97, 114, 105, 101, 115>>
      [] s = "Win64" -> <<87, 105, 110, 54, 52>>
      [] s = "Plugins" -> <<80, 108, 117, 103, 105, 110, 115>>
      [] s = "plugins" -> <<112, 108, 117, 103, 105, 110, 115>>
      [] s = "Extras" -> <<69, 120, 116, 114, 97, 115>>
      [] s = "Saved" -> <<83, 97, 118, 101, 100>>
      [] s = "UnrealPak.exe" -> <<85, 110, 114, 101, 97, 108, 80, 97, 107, 46, 101, 120, 101>>
      [] s = "UnrealPak-Cmd.exe" -> <<85, 110, 114, 101, 97, 108, 80, 97, 107, 45, 67, 109, 100, 46, 101, 120, 101>>
      [] s = "UnrealPak.pdb" -> <<85, 110, 114, 101, 97, 108, 80, 97, 107, 46, 112, 100, 98>>
      [] s = "UnrealPak" -> <<85, 110, 114, 101, 97, 108, 80, 97, 107>>
      [] s = ".exe" -> <<46, 101, 120, 101>>
      [] s = "engine" -> <<101, 110, 103, 105, 110, 101>>
      [] s = "binaries" -> <<98, 105, 110, 97, 114, 105, 101, 115>>
      [] s = "win64" -> <<119, 105, 110, 54, 52>>

\* str.lower on one character
LowerChar(c) == IF c >= 65 /\ c <= 90 THEN c + 32 ELSE c

RECURSIVE Joined(_)
\* The characters of a path's string, its parts joined by the separator
\* (code point 92, the backslash of the platform the tool is for).
Joined(path) ==
    IF Len(path) = 0 THEN <<>>
    ELSE IF Len(path) = 1 THEN Chars(path[1])
    ELSE Chars(path[1]) \o <<92>> \o Joined(Tail(path))

\* str(rel).lower()
LoweredString(path) == [k \in DOMAIN Joined(path) |-> LowerChar(Joined(path)[k])]

RECURSIVE StrLess(_, _)
\* Python's < on strings: by code point, a proper prefix first.
StrLess(a, b) ==
    IF Len(b) = 0 THEN FALSE
    ELSE IF Len(a) = 0 THEN TRUE
    ELSE IF a[1] # b[1] THEN a[1] < b[1]
    ELSE StrLess(Tail(a), Tail(b))

\* A path is the tuple of its parts relative to ue_root; NoPath is None.
NoPath == <<>>

\* BuildTarget names the model resolves.
Targets == {"UnrealPak"}

\* BuildTarget.binary_path, build_targets.py:19-20
binary_path(t) == <<"Engine", "Binaries", "Win64", t \o ".exe">>

\* The paths the model's file system can hold: the canonical one, matches
\* elsewhere under Engine, a match under the root but outside Engine, and a
\* file under Engine that does not match.
AllPaths ==
    { <<"Engine", "Binaries", "Win64", "UnrealPak.exe">>,
      <<"Engine", "Binaries", "Win64", "UnrealPak-Cmd.exe">>,
      <<"Engine", "Plugins", "UnrealPak.exe">>,
      <<"Engine", "Extras", "UnrealPak.exe">>,
      <<"Saved", "UnrealPak.exe">>,
      <<"Engine", "Plugins", "UnrealPak.pdb">> }

IsPrefix(a, b) == Len(a) <= Len(b) /\ SubSeq(b, 1, Len(a)) = a
IsSuffix(a, b) == Len(a) <= Len(b) /\ SubSeq(b, Len(b) - Len(a) + 1, Len(b)) = a

\* PATTERNS and resolve, artifact_resolver.py:12-17 and 51: the glob
\* "<name>*.exe" against a file name
Matches(t, name) ==
    /\ Len(Chars(name)) >= Len(Chars(t)) + Len(Chars(".exe"))
    /\ IsPrefix(Chars(t), Chars(name))
    /\ IsSuffix(Chars(".exe"), Chars(name))

\* resolve, artifact_resolver.py:72-78: engine_root.rglob(glob), files only
Candidates(t, fs) ==
    { f \in fs : f[1] = "Engine" /\ Matches(t, f[Len(f)]) }

\* _score_candidate, artifact_resolver.py:95-104
_score_candidate(path) ==
    LET lowered == { LoweredString(<<path[k]>>) : k \in DOMAIN path }
        in_canonical_dir ==
            /\ Chars("engine") \in lowered
            /\ Chars("binaries") \in lowered
            /\ Chars("win64") \in lowered
    IN  [rel_parts |-> Len(path),
         dir_rank |-> IF in_canonical_dir THEN 0 ELSE 1,
         text |-> LoweredString(path)]

\* The score of every path, computed once.
Scores == [f \in AllPaths |-> _score_candidate(f)]

\* Python's < on the score tuples
ScoreLess(a, b) ==
    \/ a.rel_parts < b.rel_parts
    \/ a.rel_parts = b.rel_parts /\ a.dir_rank < b.dir_rank
    \/ a.rel_parts = b.rel_parts /\ a.dir_rank = b.dir_rank /\ StrLess(a.text, b.text)

\* resolve, artifact_resolver.py:80-82: sorted(candidates, key=...)[0]
Best(cands) ==
    CHOOSE f \in cands :
        \A g \in cands \ {f} : ScoreLess(Scores[f], Scores[g])

\* The first of every sorted candidate list, computed once.
FirstSorted == [cands \in (SUBSET AllPaths) \ {{}} |-> Best(cands)]

\* The in-memory cache of one project root: target name to path, NoPath for a
\* name without an entry.
NoEntries == [t \in Targets |-> NoPath]

\* What earlier searches under this root can have left in an instance's cache.
CacheContents ==
    [Targets -> {NoPath} \cup { f \in AllPaths : \E t \in Targets : f \in Candidates(t, AllPaths \ {binary_path(t)}) }]

\* The cache file on disk: not there, there with text that is not JSON, or the
\* JSON an instance wrote.
NoCacheFile == [kind |-> "missing", entries |-> NoEntries]
CacheFiles ==
    { NoCacheFile, [kind |-> "invalid", entries |-> NoEntries] }
    \cup { [kind |-> "ok", entries |-> e] : e \in CacheContents }

\* _load_cache, artifact_resolver.py:106-112: no file and unparseable text both
\* load as the empty cache
_load_cache(file) == IF file.kind = "ok" THEN file.entries ELSE NoEntries

\* _save_cache, artifact_resolver.py:114-119: the whole in-memory cache replaces
\* the file's content; an OSError is swallowed and leaves the file as it was
_save_cache(cache, file, written) ==
    IF written THEN [kind |-> "ok", entries |-> cache] ELSE file

\* _get_cached_path, artifact_resolver.py:124-130
_get_cached_path(cache, t, fs) ==
    IF cache[t] = NoPath THEN NoPath
    ELSE IF cache[t] \in fs THEN cache[t] ELSE NoPath

\* resolve as it would be if a cache hit were reported like a canonical hit.
resolve_cache_hit_unflagged(cache, t, fs) ==
    LET canonical == binary_path(t)
        cached == _get_cached_path(cache, t, fs)
        candidates == Candidates(t, fs)
    IN  IF canonical \in fs
        THEN [target |-> t, canonical |-> canonical, resolved |-> canonical,
              found_via_search |-> FALSE, candidates |-> {}]
        ELSE IF cached # NoPath /\ cached \in fs
        THEN [target |-> t, canonical |-> canonical, resolved |-> cached,
              found_via_search |-> FALSE, candidates |-> {}]
        ELSE [target |-> t, canonical |-> canonical,
              resolved |-> IF candidates # {} THEN FirstSorted[candidates] ELSE NoPath,
              found_via_search |-> candidates # {},
              candidates |-> candidates]

\* resolve as it would be if a cache entry were returned without looking for
\* its file on disk.
resolve_trusting_cache(cache, t, fs) ==
    LET canonical == binary_path(t)
        candidates == Candidates(t, fs)
    IN  IF canonical \in fs
        THEN [target |-> t, canonical |-> canonical, resolved |-> canonical,
              found_via_search |-> FALSE, candidates |-> {}]
        ELSE IF cache[t] # NoPath
        THEN [target |-> t, canonical |-> canonical, resolved |-> cache[t],
              found_via_search |-> TRUE, candidates |-> {}]
        ELSE [target |-> t, canonical |-> canonical,
              resolved |-> IF candidates # {} THEN FirstSorted[candidates] ELSE NoPath,
              found_via_search |-> candidates # {},
              candidates |-> candidates]

\* resolve as it would be if the cache were consulted before the canonical
\* path.
resolve_cache_first(cache, t, fs) ==
    LET canonical == binary_path(t)
        cached == _get_cached_path(cache, t, fs)
        candidates == Candidates(t, fs)
    IN  IF cached # NoPath /\ cached \in fs
        THEN [target |-> t, canonical |-> canonical, resolved |-> cached,
              found_via_search |-> TRUE, candidates |-> {}]
        ELSE IF canonical \in fs
        THEN [target |-> t, canonical |-> canonical, resolved |-> canonical,
              found_via_search |-> FALSE, candidates |-> {}]
        ELSE [target |-> t, canonical |-> canonical,
              resolved |-> IF candidates # {} THEN FirstSorted[candidates] ELSE NoPath,
              found_via_search |-> candidates # {},
              candidates |-> candidates]

\* ArtifactResolver.resolve, artifact_resolver.py:49-92: the ArtifactResolution
\* for target t given the instance's cache and the files on disk
resolve(cache, t, fs) ==
    LET canonical == binary_path(t)
        cached == _get_cached_path(cache, t, fs)
        candidates == Candidates(t, fs)
    IN  IF canonical \in fs
        THEN [target |-> t, canonical |-> canonical, resolved |-> canonical,
              found_via_search |-> FALSE, candidates |-> {}]
        ELSE IF cached # NoPath /\ cached \in fs
        THEN [target |-> t, canonical |-> canonical, resolved |-> cached,
              found_via_search |-> TRUE, candidates |-> {}]
        ELSE [target |-> t, canonical |-> canonical,
              resolved |-> IF candidates # {} THEN FirstSorted[candidates] ELSE NoPath,
              found_via_search |-> candidates # {},
              candidates |-> candidates]

\* Whether resolve gets as far as the search, artifact_resolver.py:72-83
Searches(cache, t, fs) ==
    /\ binary_path(t) \notin fs
    /\ _get_cached_path(cache, t, fs) = NoPath

\* _set_cache_path, artifact_resolver.py:132-135: the instance's cache after a
\* search that found something
_set_cache_path(cache, t, path) == [cache EXCEPT ![t] = path]

NoResult == [by |-> 0, target |-> "", canonical |-> NoPath, resolved |-> NoPath,
             found_via_search |-> FALSE, candidates |-> {}]

ResInit ==
    /\ files \in SUBSET AllPaths
    /\ cacheFile \in CacheFiles
    /\ rcache = [i \in Resolvers |-> NoEntries]
    /\ built = [i \in Resolvers |-> FALSE]
    /\ result = NoResult
    /\ lastOp = "none"

ResIdle ==
    /\ files = {}
    /\ cacheFile = NoCacheFile
    /\ rcache = [i \in Resolvers |-> NoEntries]
    /\ built = [i \in Resolvers |-> FALSE]
    /\ result = NoResult
    /\ lastOp = "none"

\* ArtifactResolver.__init__, artifact_resolver.py:44-47
NewResolver(i) ==
    /\ rcache' = [rcache EXCEPT ![i] = _load_cache(cacheFile)]
    /\ built' = [built EXCEPT ![i] = TRUE]
    /\ lastOp' = "new"
    /\ result' = NoResult
    /\ UNCHANGED <<files, cacheFile>>
    /\ UNCHANGED notRes

\* One resolve call of instance i, with the cache write of a successful search
\* (_set_cache_path and _save_cache, artifact_resolver.py:83, 114-119, 132-135)
Resolve(i, t) ==
    /\ built[i]
    /\ LET r == resolve(rcache[i], t, files) IN
       /\ result' = [by |-> i, target |-> r.target, canonical |-> r.canonical,
                     resolved |-> r.resolved,
                     found_via_search |-> r.found_via_search,
                     candidates |-> r.candidates]
       /\ IF Searches(rcache[i], t, files) /\ r.resolved # NoPath
          THEN /\ rcache' = [rcache EXCEPT ![i] = _set_cache_path(rcache[i], t, r.resolved)]
               /\ \E written \in BOOLEAN :
                     cacheFile' = _save_cache(rcache'[i], cacheFile, written)
          ELSE UNCHANGED <<rcache, cacheFile>>
    /\ lastOp' = "resolve"
    /\ UNCHANGED <<files, built>>
    /\ UNCHANGED notRes

\* A build or the operator creates a file.
CreateFile(f) ==
    /\ f \notin files
    /\ files' = files \cup {f}
    /\ lastOp' = "fs"
    /\ result' = NoResult
    /\ UNCHANGED <<cacheFile, rcache, built>>
    /\ UNCHANGED notRes

\* A clean or the operator deletes a file.
DeleteFile(f) ==
    /\ f \in files
    /\ files' = files \ {f}
    /\ lastOp' = "fs"
    /\ result' = NoResult
    /\ UNCHANGED <<cacheFile, rcache, built>>
    /\ UNCHANGED notRes

ResNext ==
    \/ \E i \in Resolvers : NewResolver(i)
    \/ \E i \in Resolvers, t \in Targets : Resolve(i, t)
    \/ \E f \in AllPaths : CreateFile(f)
    \/ \E f \in AllPaths : DeleteFile(f)

----------------------------------------------------------------------------
(* Claims about the artifact resolver, checked under ResolverSpec *)

\* The files under the project root, inside Engine or not, whose name matches
\* the target's pattern.
MatchingUnderRoot(t, fs) == { f \in fs : Matches(t, f[Len(f)]) }

\* C9: the ArtifactResolution a resolve call returns, against the files on disk
\* at that moment: a canonical path that exists is the result, not found via
\* search; without it, any result is found via search, differs from the
\* canonical path and is a matching file, and there is a result when a match
\* exists under Engine; with no matching file anywhere under the root the
\* result is null; found_via_search is true exactly when the result is
\* non-null and not the canonical path.
C9_ResolutionShape ==
    lastOp = "resolve" =>
        LET c == binary_path(result.target) IN
        /\ result.canonical = c
        /\ c \in files => (result.resolved = c /\ ~result.found_via_search)
        /\ (c \notin files /\ result.resolved # NoPath) =>
              /\ result.found_via_search
              /\ result.resolved # c
              /\ result.resolved \in MatchingUnderRoot(result.target, files)
        /\ (c \notin files /\ Candidates(result.target, files) # {}) =>
              result.resolved # NoPath
        /\ MatchingUnderRoot(result.target, files) = {} => result.resolved = NoPath
        /\ result.found_via_search <=> (result.resolved # NoPath /\ result.resolved # c)

\* A resolve answered from the cache: no canonical file, no search made, a
\* non-canonical file returned as found via search.
C9_Witness ==
    /\ lastOp = "resolve"
    /\ binary_path(result.target) \notin files
    /\ result.resolved # NoPath
    /\ result.candidates = {}
    /\ result.found_via_search

----------------------------------------------------------------------------
(* The writers of BuildConfiguration.xml and of the generated artifacts:   *)
(* ue/build_config.py, fix/horde.py, fix/visual_studio.py                  *)

\* The flags the tool sets in BuildConfiguration.xml: one flag of the
\* distributed-shader set stands for them all, every flag being read and set
\* on its own.
Keys == {"bAllowXGE"}

\* The text of a flag's element in a file: NoElem when the file has no such
\* element, "" for an element without text.
NoElem == "absent"
Texts == {"true", "false", "1", ""}

\* The content of a file at the BuildConfiguration.xml path: no file, a file
\* with no text, text that is not XML, or an XML document with the text of
\* each flag element, whether it has other elements too (extra), and whether
\* it is laid out as _render_xml lays it out (pretty).
NoFlags == [k \in Keys |-> NoElem]
NoText == [kind |-> "missing", flags |-> NoFlags, extra |-> FALSE, pretty |-> FALSE]
EmptyText == [kind |-> "empty", flags |-> NoFlags, extra |-> FALSE, pretty |-> FALSE]
InvalidXml == [kind |-> "invalid", flags |-> NoFlags, extra |-> FALSE, pretty |-> FALSE]
XmlText(flags, extra, pretty) ==
    [kind |-> "xml", flags |-> flags, extra |-> extra, pretty |-> pretty]

\* The files a user or an earlier run can have left at the path.
CfgFiles ==
    {NoText, EmptyText, InvalidXml}
    \cup { XmlText(f, FALSE, p) : f \in [Keys -> Texts \cup {NoElem}], p \in BOOLEAN }

\* TEMPLATE, horde.py:11-21: the flags true among other elements
TEMPLATE == XmlText([k \in Keys |-> "true"], TRUE, TRUE)

\* _parse_bool, build_config.py:13-14 ("yes" is not among the model's texts)
_parse_bool(text) == text \in {"true", "1"}

\* parse_build_configuration_flags, build_config.py:17-31: the dict as a
\* function, "unset" for a key that is not in it; text that does not parse
\* gives the empty dict, an element without text gives no entry
parse_build_configuration_flags(text) ==
    [k \in Keys |->
        IF text.kind # "xml" \/ text.flags[k] \in {NoElem, ""} THEN "unset"
        ELSE IF _parse_bool(text.flags[k]) THEN "yes" ELSE "no"]

\* The updates argument (Dict[str, bool]) as a function: "skip" for a key that
\* is not in it.
Updates == [Keys -> {"skip", "yes", "no"}]

\* plan_build_configuration_update, build_config.py:131: the updates whose key
\* is among valid_keys
filtered_updates(updates, valid_keys) ==
    [k \in Keys |-> IF k \in valid_keys THEN updates[k] ELSE "skip"]

\* _set_flags, build_config.py:66-83: the element texts after the call
_set_flags(flags, updates) ==
    [k \in Keys |-> CASE updates[k] = "yes" -> "true"
                      [] updates[k] = "no" -> "false"
                      [] OTHER -> flags[k]]

\* _set_flags, build_config.py:80-82: the keys it reports as changed
changed_keys(flags, updates) ==
    { k \in Keys : updates[k] # "skip" /\ flags[k] # _set_flags(flags, updates)[k] }

\* BuildConfigUpdate, build_config.py:97-104; before and after are NoText for
\* None, backup is the stamp of the backup file or -1 for None
BuildConfigUpdate(before, after, changed) ==
    [before |-> before, after |-> after, changed_keys |-> changed, backup |-> -1]

NoUpdate == BuildConfigUpdate(NoText, NoText, {})

\* plan_build_configuration_update, build_config.py:124-189, for the file at
\* the path; readable is false when read_text raises OSError
plan_build_configuration_update(file, updates, valid_keys, readable) ==
    LET filtered == filtered_updates(updates, valid_keys)
        none == \A k \in Keys : filtered[k] = "skip"
        before_text == IF file.kind = "missing" THEN NoText
                       ELSE IF readable THEN file ELSE EmptyText
        truthy == before_text.kind \in {"invalid", "xml"}
        existing_flags == parse_build_configuration_flags(before_text)
        tree == IF before_text.kind = "xml" THEN before_text
                ELSE XmlText(NoFlags, FALSE, FALSE)
    IN  IF truthy /\ \A k \in Keys : filtered[k] # "skip" => existing_flags[k] = filtered[k]
        THEN BuildConfigUpdate(before_text, before_text, {})
        ELSE IF none
        THEN BuildConfigUpdate(before_text, before_text, {})
        ELSE BuildConfigUpdate(before_text,
                               XmlText(_set_flags(tree.flags, filtered), tree.extra, TRUE),
                               changed_keys(tree.flags, filtered))

\* BuildConfigUpdate.changed, build_config.py:106-108
changed(u) ==
    /\ u.after.kind # "missing"
    /\ u.after # (IF u.before.kind = "missing" THEN EmptyText ELSE u.before)

\* _timestamped_backup_path, build_config.py:86-88: one name per second
_timestamped_backup_path(t) == t

\* A BuildConfiguration.xml at generate_build_configuration's target that the
\* user has edited since it was generated.
EditedTemplate == XmlText([k \in Keys |-> "false"], TRUE, FALSE)

\* The text of a generated .vsconfig: no file, the manifest's components, the
\* components with a Windows SDK component added, or a file edited by hand.
VsTexts == {"missing", "plain", "withSdk", "edited"}

\* The manifests generate_vsconfig is called with: each has its own
\* <id>_<fingerprint>.vsconfig.
VsManifests == {"ue_5.6", "ue_5.7"}

\* What the last writer call did: the call (op) and the file it is about,
\* whether that file existed before the call (existed), whether the call wrote
\* it (wrote), whether the call wrote a backup file (backed), whether the
\* content the file had before the call is still in the file or in a backup
\* file after it (kept), whether the file and the backup files are as they were
\* before the call (same); and, for BuildConfiguration.xml, the filtered
\* updates of the last plan (planned), whether the plan found them all in the
\* file (holds), whether no apply has run since that plan (fresh), the
\* filtered updates the last writing apply wrote (applied), and whether an
\* apply ran a fresh plan of the updates applied last that found them all in
\* the file (again).  preview tells that the call was made in a dry run or by
\* an invocation without --apply.
NoUpdates == [k \in Keys |-> "skip"]
NoWr == [op |-> "none", file |-> "none", existed |-> FALSE, wrote |-> FALSE,
         backed |-> FALSE, kept |-> TRUE, same |-> TRUE,
         planned |-> NoUpdates, holds |-> FALSE, fresh |-> FALSE,
         applied |-> NoUpdates, again |-> FALSE, preview |-> FALSE]

\* No plan or apply has run: BuildConfiguration.xml is what earlier runs and
\* the user left.
WrInit ==
    /\ cfg \in CfgFiles
    /\ tmpl = NoText
    /\ vsconfig = [m \in VsManifests |-> "missing"]
    /\ backups = [t \in 0..MaxTime |-> NoText]
    /\ now = 0
    /\ update = NoUpdate
    /\ lastWr = NoWr

\* No generator has run: the template and the .vsconfig files are what
\* earlier runs and the user left.
GenInit ==
    /\ cfg = NoText
    /\ tmpl \in {NoText, TEMPLATE, EditedTemplate}
    /\ vsconfig \in [VsManifests -> {"missing", "edited"}]
    /\ backups = [t \in 0..MaxTime |-> NoText]
    /\ now = 0
    /\ update = NoUpdate
    /\ lastWr = NoWr

\* The writers are not part of the run.
WrIdle ==
    /\ cfg = NoText
    /\ tmpl = NoText
    /\ vsconfig = [m \in VsManifests |-> "missing"]
    /\ backups = [t \in 0..MaxTime |-> NoText]
    /\ now = 0
    /\ update = NoUpdate
    /\ lastWr = NoWr

\* plan_build_configuration_update, build_config.py:124-189: reads the file,
\* writes nothing
PlanUpdate ==
    \E updates \in Updates, valid_keys \in SUBSET Keys, readable \in BOOLEAN :
        LET filtered == filtered_updates(updates, valid_keys)
            planned == plan_build_configuration_update(cfg, updates, valid_keys, readable)
        IN  /\ readable \/ cfg.kind # "missing"
            /\ update' = planned
            /\ lastWr' = [lastWr EXCEPT
                   !.op = "plan", !.file = "cfg", !.preview = FALSE,
                   !.existed = (cfg.kind # "missing"),
                   !.wrote = FALSE, !.backed = FALSE, !.kept = TRUE, !.same = TRUE,
                   !.planned = filtered, !.fresh = TRUE, !.again = FALSE,
                   !.holds = /\ filtered # NoUpdates
                             /\ cfg.kind = "xml"
                             /\ planned.before = cfg
                             /\ \A k \in Keys : filtered[k] # "skip" =>
                                    parse_build_configuration_flags(cfg)[k] = filtered[k]]
            /\ UNCHANGED <<cfg, tmpl, vsconfig, backups, now>>
            /\ UNCHANGED notWr

\* apply_build_configuration_update, build_config.py:192-215, on the update
\* last planned; backup_ok and write_ok are false when the write_text of the
\* backup or of the file raises OSError before it has written anything
ApplyUpdate ==
    \E dry_run \in BOOLEAN, backup \in BOOLEAN, backup_ok \in BOOLEAN, write_ok \in BOOLEAN :
        LET falsy == update.after.kind \in {"missing", "empty"}
            backing == ~falsy /\ ~dry_run /\ cfg.kind # "missing" /\ backup
            backed == backing /\ backup_ok
            stamp == _timestamped_backup_path(now)
            copy == IF update.before.kind = "missing" THEN EmptyText ELSE update.before
            wrote == ~falsy /\ ~dry_run /\ write_ok
            cfg2 == IF wrote THEN update.after ELSE cfg
            backups2 == IF backed THEN [backups EXCEPT ![stamp] = copy] ELSE backups
        IN  /\ cfg' = cfg2
            /\ backups' = backups2
            /\ update' = IF falsy THEN update
                         ELSE [update EXCEPT !.backup = IF backed THEN stamp ELSE -1]
            /\ lastWr' = [lastWr EXCEPT
                   !.op = "apply", !.file = "cfg", !.preview = dry_run,
                   !.existed = (cfg.kind # "missing"),
                   !.wrote = wrote, !.backed = backed,
                   !.kept = (cfg2 = cfg \/ \E t \in 0..MaxTime : backups2[t] = cfg),
                   !.same = (cfg2 = cfg /\ backups2 = backups),
                   !.fresh = FALSE,
                   !.applied = IF wrote THEN lastWr.planned ELSE lastWr.applied,
                   !.again = lastWr.fresh /\ lastWr.holds /\ lastWr.applied = lastWr.planned]
            /\ UNCHANGED <<tmpl, vsconfig, now>>
            /\ UNCHANGED notWr

\* generate_build_configuration, horde.py:24-34
GenerateBuildConfiguration ==
    \E dry_run \in BOOLEAN :
        LET tmpl2 == IF dry_run THEN tmpl ELSE TEMPLATE
        IN  /\ tmpl' = tmpl2
            /\ lastWr' = [lastWr EXCEPT
                   !.op = "generate", !.file = "tmpl", !.preview = dry_run,
                   !.existed = (tmpl.kind # "missing"),
                   !.wrote = ~dry_run, !.backed = FALSE, !.again = FALSE,
                   !.kept = (tmpl2 = tmpl), !.same = (tmpl2 = tmpl)]
            /\ UNCHANGED <<cfg, vsconfig, backups, now, update>>
            /\ UNCHANGED notWr

\* generate_vsconfig, visual_studio.py:151-174; extra_components holds the
\* Windows SDK component or nothing
GenerateVsconfig ==
    \E manifest \in VsManifests, extra_components \in BOOLEAN :
        LET text == IF extra_components THEN "withSdk" ELSE "plain"
        IN  /\ vsconfig' = [vsconfig EXCEPT ![manifest] = text]
            /\ lastWr' = [lastWr EXCEPT
                   !.op = "generate", !.file = "vsconfig", !.preview = FALSE,
                   !.existed = (vsconfig[manifest] # "missing"),
                   !.wrote = TRUE, !.backed = FALSE, !.again = FALSE,
                   !.kept = (text = vsconfig[manifest]),
                   !.same = (text = vsconfig[manifest])]
            /\ UNCHANGED <<cfg, tmpl, backups, now, update>>
            /\ UNCHANGED notWr

\* A second of the wall clock passes (datetime.now(), build_config.py:87).
Tick ==
    /\ now < MaxTime
    /\ now' = now + 1
    /\ UNCHANGED <<cfg, tmpl, vsconfig, backups, update, lastWr>>
    /\ UNCHANGED notWr

WrNext ==
    \/ PlanUpdate
    \/ ApplyUpdate
    \/ Tick


----------------------------------------------------------------------------
(* Manifest resolution: manifest/load_manifest.py, detect_ue_version.py    *)

\* A version text as the digit groups re.findall(r"\d+", text) finds in it
\* and whether it has anything else but the dots between them ("UE 5.7");
\* "" is the text with no groups and nothing else.
VersionText(digits, deco) == [digits |-> digits, deco |-> deco]
Groups == {<<>>, <<5>>, <<5, 6>>, <<5, 7>>, <<5, 7, 2>>, <<5, 9>>, <<5, 9, 1>>}
VersionTexts == { VersionText(d, x) : d \in Groups, x \in BOOLEAN }
NoVersion == VersionText(<<>>, FALSE)

\* The name "ue_<text>" of a version text, lowercased: the manifest stem of
\* that version when the text is plain digits and dots, some other name when
\* it is not.
StemOf(v) ==
    IF v.deco THEN "ue_other"
    ELSE CASE v.digits = <<5>> -> "ue_5"
           [] v.digits = <<5, 6>> -> "ue_5.6"
           [] v.digits = <<5, 7>> -> "ue_5.7"
           [] v.digits = <<5, 7, 2>> -> "ue_5.7.2"
           [] v.digits = <<5, 9>> -> "ue_5.9"
           [] v.digits = <<5, 9, 1>> -> "ue_5.9.1"
           [] OTHER -> "ue_"

\* A file name or --manifest argument: a stem, whether ".json" follows it, and
\* whether it is written in upper case.
Name(stem, json, upper) == [stem |-> stem, json |-> json, upper |-> upper]
Plain(stem) == Name(stem, FALSE, FALSE)

\* No --manifest argument: None, or the empty string, which the code does not
\* tell apart.
NoName == Plain("")

\* str.lower(), load_manifest.py:154
lower(n) == [n EXCEPT !.upper = FALSE]

\* spec.replace(".json", ""), load_manifest.py:148
strip_json(n) == [n EXCEPT !.json = FALSE]

\* The catalog: the stems of the .json files in MANIFEST_DIR (dir) and the
\* files of the working directory that a candidate can name (cwd).
Stems == {"ue_5.6", "ue_5.7", "ue_5.7.2", "custom"}
CwdFiles == {{}, {Name("custom", TRUE, FALSE)}, {Plain("ue_5.9")}}
Catalogs == [dir : SUBSET Stems, cwd : CwdFiles]

\* available_manifests, load_manifest.py:37-43: the stems that match ue_*.json
available_manifests(catalog) == catalog.dir \ {"custom"}

\* A path: where the file is and its name.
PathIn(place, n) == [place |-> place, name |-> n]
NoManifestPath == PathIn("none", Plain(""))

\* _find_manifest_path, load_manifest.py:153-162, for one candidate
FindCandidate(candidate, catalog) ==
    LET c == lower(candidate)
    IN  IF c \in catalog.cwd THEN PathIn("cwd", c)
        ELSE IF ~c.json /\ c.stem \in available_manifests(catalog) THEN PathIn("dir", Name(c.stem, TRUE, FALSE))
        ELSE IF ~c.json /\ c.stem \in catalog.dir THEN PathIn("dir", Name(c.stem, TRUE, FALSE))
        ELSE NoManifestPath

\* _find_manifest_path, load_manifest.py:137-162; spec is NoName or a name,
\* ue_version a version text
_find_manifest_path(spec, ue_version, catalog) ==
    IF spec # NoName
    THEN LET first == FindCandidate(spec, catalog)
         IN  IF first # NoManifestPath THEN first ELSE FindCandidate(strip_json(spec), catalog)
    ELSE IF ue_version # NoVersion
    THEN FindCandidate(Plain(StemOf(ue_version)), catalog)
    ELSE NoManifestPath

\* _normalize_version_input, load_manifest.py:52-63: the normalized text, or
\* NoVersion for (None, None)
_normalize_version_input(text) ==
    IF Len(text.digits) < 2 THEN NoVersion
    ELSE VersionText(SubSeq(text.digits, 1, IF Len(text.digits) > 2 THEN 3 ELSE 2), FALSE)

\* _resolve_version_manifest falling back to the manifest of another minor
\* version of the same major when the minor has none.
_resolve_version_manifest_any_minor(ue_version, catalog) ==
    LET normalized == _normalize_version_input(ue_version)
        exact == _find_manifest_path(NoName, normalized, catalog)
        others == { s \in available_manifests(catalog) : normalized # NoVersion }
    IN  IF exact # NoManifestPath
        THEN [path |-> exact, version |-> normalized, note |-> FALSE]
        ELSE IF others # {}
        THEN [path |-> PathIn("dir", Name(CHOOSE s \in others : TRUE, TRUE, FALSE)),
              version |-> normalized, note |-> TRUE]
        ELSE [path |-> NoManifestPath, version |-> NoVersion, note |-> FALSE]

\* _resolve_version_manifest, load_manifest.py:165-182: path, resolved version
\* and whether a note is made
_resolve_version_manifest(ue_version, catalog) ==
    LET normalized == _normalize_version_input(ue_version)
        exact == _find_manifest_path(NoName, normalized, catalog)
        minor_version == VersionText(SubSeq(normalized.digits, 1, 2), FALSE)
        minor == _find_manifest_path(NoName, minor_version, catalog)
    IN  IF normalized = NoVersion
        THEN [path |-> NoManifestPath, version |-> NoVersion, note |-> FALSE]
        ELSE IF exact # NoManifestPath
        THEN [path |-> exact, version |-> normalized, note |-> FALSE]
        ELSE IF Len(normalized.digits) = 3 /\ minor # NoManifestPath
        THEN [path |-> minor, version |-> minor_version, note |-> TRUE]
        ELSE [path |-> NoManifestPath, version |-> NoVersion, note |-> FALSE]

\* A --ue-root argument by what detect_ue_version finds there: no argument, a
\* root without a usable Engine/Build/Build.version, or the MajorVersion,
\* MinorVersion and PatchVersion of the file.
Root(kind, digits) == [kind |-> kind, digits |-> digits]
NoRoot == Root("none", <<>>)
UeRoots ==
    {NoRoot, Root("nofile", <<>>)}
    \cup { Root("version", d) : d \in {<<5, 6, 0>>, <<5, 7, 0>>, <<5, 7, 2>>, <<5, 9, 0>>} }

\* detect_ue_version, detect_ue_version.py:10-28
detect_ue_version(ue_root) ==
    IF ue_root.kind # "version" THEN NoVersion
    ELSE IF ue_root.digits[3] = 0 THEN VersionText(SubSeq(ue_root.digits, 1, 2), FALSE)
    ELSE VersionText(ue_root.digits, FALSE)

\* The fields of WindowsSDKRequirement, manifest_types.py:35-39, and the
\* keywords load_manifest_from_path constructs it with, load_manifest.py:106-112.
WindowsSDKRequirementFields == {"preferred_versions", "minimum_version", "notes"}
WindowsSDKRequirementKeywords ==
    {"preferred_versions", "preferred_version", "minimum_version", "notes", "source"}

\* load_manifest_from_path, load_manifest.py:78-134: the manifest of the file
\* by its id, or the TypeError of a keyword the dataclass does not have
load_manifest_from_path(path) ==
    IF WindowsSDKRequirementKeywords \subseteq WindowsSDKRequirementFields
    THEN [raised |-> FALSE, id |-> path.name.stem]
    ELSE [raised |-> TRUE, id |-> ""]

\* ManifestResolution, load_manifest.py:26-34, or the exception that left
\* resolve_manifest (raised); manifest is the id or "" for None, source the
\* path, note and failure_reason whether they are set, available the
\* manifests the failure reason lists
ManifestResolution(raised, manifest, source, detected, note, requested, resolved, failure, available) ==
    [raised |-> raised, manifest |-> manifest, source |-> source,
     detected_version |-> detected, note |-> note,
     requested_version |-> requested, resolved_version |-> resolved,
     failure_reason |-> failure, available |-> available]

NoResolution ==
    ManifestResolution(FALSE, "", NoManifestPath, NoVersion, FALSE, NoVersion, NoVersion, FALSE, {})

\* a or b on version texts
OrElse(a, b) == IF a # NoVersion THEN a ELSE b

\* resolve_manifest, load_manifest.py:185-224
resolve_manifest(manifest, ue_version, ue_root, catalog) ==
    LET manifest_map == available_manifests(catalog)
        first == _find_manifest_path(manifest, ue_version, catalog)
        detecting == first = NoManifestPath /\ manifest = NoName
        detected_version == IF detecting THEN detect_ue_version(ue_root) ELSE NoVersion
        byDetected == _resolve_version_manifest(detected_version, catalog)
        second == IF detecting /\ detected_version # NoVersion
                  THEN byDetected
                  ELSE [path |-> first, version |-> NoVersion, note |-> FALSE]
        byRequested == _resolve_version_manifest(ue_version, catalog)
        third == IF second.path = NoManifestPath /\ manifest = NoName
                 THEN byRequested
                 ELSE second
        requested_norm == _normalize_version_input(ue_version)
        failing == third.path = NoManifestPath /\ requested_norm # NoVersion
        manifestLoaded == load_manifest_from_path(third.path)
    IN  IF third.path = NoManifestPath
        THEN ManifestResolution(FALSE, "", NoManifestPath, detected_version, third.note,
                                OrElse(requested_norm, ue_version), third.version,
                                failing, IF failing THEN manifest_map ELSE {})
        ELSE IF manifestLoaded.raised
        THEN [NoResolution EXCEPT !.raised = TRUE]
        ELSE ManifestResolution(FALSE, manifestLoaded.id, third.path,
                                OrElse(detected_version, ue_version), third.note,
                                OrElse(requested_norm, ue_version),
                                OrElse(third.version, ue_version), FALSE, {})

\* The --manifest arguments: none, a stem, a stem in upper case, a stem with
\* ".json", a file of the working directory, and names of no manifest.
Specs ==
    { NoName, Plain("ue_5.7"), Name("ue_5.7", FALSE, TRUE), Name("ue_5.7", TRUE, FALSE),
      Name("custom", TRUE, FALSE), Plain("custom"), Plain("ue_5.9") }

Requests == [manifest : Specs, ue_version : VersionTexts, ue_root : UeRoots]

NoRequest == [manifest |-> NoName, ue_version |-> NoVersion, ue_root |-> NoRoot]
NoCatalog == [dir |-> {}, cwd |-> {}]

\* A call of resolve_manifest is about to be made, over any catalog.
ManInit ==
    /\ manifestFiles \in Catalogs
    /\ request \in Requests
    /\ resolution = NoResolution
    /\ returned = FALSE

\* No manifest is being resolved.
ManIdle ==
    /\ manifestFiles = NoCatalog
    /\ request = NoRequest
    /\ resolution = NoResolution
    /\ returned = FALSE

\* resolve_manifest, load_manifest.py:185-224, is called and returns or raises
ResolveManifest ==
    /\ ~returned
    /\ resolution' = resolve_manifest(request.manifest, request.ue_version, request.ue_root, manifestFiles)
    /\ returned' = TRUE
    /\ UNCHANGED <<manifestFiles, request>>
    /\ UNCHANGED notMan

ManNext == ResolveManifest

----------------------------------------------------------------------------
(* Visual Studio compliance and the modify plan: probe/toolchain.py,       *)
(* fix/visual_studio.py                                                    *)

\* parse_vs_version, toolchain.py:88-98, of the installationVersion texts the
\* model has: "unknown", "16.11", "17.7", "17.8", "17.9", "17.9.0"
VsVersions == {<<>>, <<16, 11>>, <<17, 7>>, <<17, 8>>, <<17, 9>>, <<17, 9, 0>>}

\* Component ids: two the manifests require, one of them also as vswhere can
\* spell it, and one no manifest requires.
PackageLists == {{}, {"other"}, {"c1", "other"}, {"C1", "c2"}, {"c1", "c2"}}

\* VSInstance, toolchain.py:29-35: the parsed version and the packages
VSInstance(version, packages) == [version |-> version, packages |-> packages]
VSInstances == { VSInstance(v, p) : v \in VsVersions, p \in PackageLists }

\* The lists _discover_vs_instances can return, in vswhere's order.
InstanceLists == UNION { [1..n -> VSInstances] : n \in 0..MaxInstances }

\* VisualStudioRequirement, manifest_types.py:19-26; min_version and
\* recommended_version are <<>> for None. The loader fills min_version from the
\* manifest's min_version or min_build, and recommended_version from its
\* recommended_version or max_build (load_manifest.py:84-85).
VsRequirements ==
    [required_major : {17}, min_version : {<<>>, <<17, 8>>},
     recommended_version : {<<>>, <<17, 8>>},
     requires_components : {{}, {"c1"}, {"c1", "c2"}}]

\* left + (0,) * n, toolchain.py:102-104
Padded(t, n) == [i \in 1..n |-> IF i <= Len(t) THEN t[i] ELSE 0]

\* Tuple comparison, toolchain.py:105-108 and visual_studio.py:92
RECURSIVE TupleLess(_, _)
TupleLess(a, b) ==
    IF b = <<>> THEN FALSE
    ELSE IF a = <<>> THEN TRUE
    ELSE IF Head(a) # Head(b) THEN Head(a) < Head(b)
    ELSE TupleLess(Tail(a), Tail(b))

\* compare_versions, toolchain.py:101-109
compare_versions(left, right) ==
    LET max_len == IF Len(left) > Len(right) THEN Len(left) ELSE Len(right)
        padded_left == Padded(left, max_len)
        padded_right == Padded(right, max_len)
    IN  IF TupleLess(padded_left, padded_right) THEN -1
        ELSE IF TupleLess(padded_right, padded_left) THEN 1
        ELSE 0

\* The filter of toolchain.py:393-397 and visual_studio.py:79-85
PassesFilter(inst, vs_req) ==
    /\ inst.version # <<>>
    /\ inst.version[1] = vs_req.required_major
    /\ vs_req.min_version = <<>> \/ compare_versions(inst.version, vs_req.min_version) >= 0

\* The positions of the list that pass the filter, in the list's order
\* (the candidates list).
RECURSIVE CandidatesFrom(_, _, _)
CandidatesFrom(list, vs_req, i) ==
    IF i > Len(list) THEN <<>>
    ELSE IF PassesFilter(list[i], vs_req)
    THEN <<i>> \o CandidatesFrom(list, vs_req, i + 1)
    ELSE CandidatesFrom(list, vs_req, i + 1)

\* toolchain.py:398: the required components that are not in inst.packages,
\* compared as they are spelled
MissingExact(inst, vs_req) == vs_req.requires_components \ inst.packages

\* str.lower() on the component ids
LowerId(id) == IF id = "C1" THEN "c1" ELSE id

\* _missing_components, visual_studio.py:303-312: compared in lower case
_missing_components(required, installed) ==
    { item \in required : LowerId(item) \notin { LowerId(p) : p \in installed } }

\* SectionEvaluation, toolchain.py:21-26, by what the claims read of it: the
\* status, the position of the instance the evidence names (0 for none), the
\* components the message lists, and whether it is the "Unable to verify"
\* warning
SectionEvaluation(status, selected, missing, unverified) ==
    [status |-> status, selected |-> selected, missing |-> missing, unverified |-> unverified]

NoEvaluation == SectionEvaluation("none", 0, {}, FALSE)

\* The loop of toolchain.py:415-420 over the candidates from position k on,
\* best being the position held so far
RECURSIVE SelectBest(_, _, _, _, _)
SelectBest(list, vs_req, candidates, k, best) ==
    IF k > Len(candidates) THEN best
    ELSE LET i == candidates[k]
             fewer == Cardinality(MissingExact(list[i], vs_req))
                        < Cardinality(MissingExact(list[best], vs_req))
             newer == /\ Cardinality(MissingExact(list[i], vs_req))
                           = Cardinality(MissingExact(list[best], vs_req))
                      /\ compare_versions(list[i].version, list[best].version) > 0
         IN  SelectBest(list, vs_req, candidates, k + 1, IF fewer \/ newer THEN i ELSE best)

\* _evaluate_visual_studio, toolchain.py:380-436
_evaluate_visual_studio(vs_req, list) ==
    LET candidates == CandidatesFrom(list, vs_req, 1)
        best == SelectBest(list, vs_req, candidates, 2, candidates[1])
        missing == MissingExact(list[best], vs_req)
    IN  IF list = <<>> THEN SectionEvaluation("FAIL", 0, {}, FALSE)
        ELSE IF candidates = <<>> THEN SectionEvaluation("FAIL", 0, {}, FALSE)
        ELSE IF list[candidates[1]].packages = {}
        THEN SectionEvaluation("WARN", candidates[1], vs_req.requires_components, TRUE)
        ELSE IF missing = {} THEN SectionEvaluation("PASS", best, {}, FALSE)
        ELSE SectionEvaluation("WARN", best, missing, FALSE)

\* VSModifyPlan, visual_studio.py:39-44; instance is the position in the list,
\* 0 for None
VSModifyPlan(required, instance, missing_components) ==
    [required |-> required, instance |-> instance, missing_components |-> missing_components]

NoPlan == VSModifyPlan(FALSE, 0, {})

\* candidates.sort(key=lambda item: item[1], reverse=True), visual_studio.py:92:
\* the first position of the sorted list, the sort being stable and the keys
\* compared as tuples
RECURSIVE NewestFirst(_, _, _, _)
NewestFirst(list, candidates, k, best) ==
    IF k > Len(candidates) THEN best
    ELSE NewestFirst(list, candidates, k + 1,
                     IF TupleLess(list[best].version, list[candidates[k]].version)
                     THEN candidates[k] ELSE best)

\* plan_vs_modify, visual_studio.py:69-102, for a manifest that is not None
plan_vs_modify(vs_req, list) ==
    LET candidates == CandidatesFrom(list, vs_req, 1)
        best == NewestFirst(list, candidates, 2, candidates[1])
        missing_components == _missing_components(vs_req.requires_components, list[best].packages)
    IN  IF list = <<>> THEN NoPlan
        ELSE IF candidates = <<>> THEN NoPlan
        ELSE IF missing_components = {} THEN NoPlan
        ELSE VSModifyPlan(TRUE, best, missing_components)

\* A machine's instances and a manifest's requirement, before the evaluator
\* and the planner run.
VsInit ==
    /\ instances \in InstanceLists
    /\ requirement \in VsRequirements
    /\ evaluation = NoEvaluation
    /\ modifyPlan = NoPlan
    /\ vsDone = {}

\* Neither the evaluator nor the planner is part of the run.
VsIdle ==
    /\ instances = <<>>
    /\ requirement = [required_major |-> 17, min_version |-> <<>>,
                      recommended_version |-> <<>>, requires_components |-> {}]
    /\ evaluation = NoEvaluation
    /\ modifyPlan = NoPlan
    /\ vsDone = {}

\* _evaluate_visual_studio, toolchain.py:380-436, is called
EvaluateVisualStudio ==
    /\ "evaluate" \notin vsDone
    /\ evaluation' = _evaluate_visual_studio(requirement, instances)
    /\ vsDone' = vsDone \cup {"evaluate"}
    /\ UNCHANGED <<instances, requirement, modifyPlan>>
    /\ UNCHANGED notVs

\* plan_vs_modify, visual_studio.py:69-102, is called
PlanVsModify ==
    /\ "plan" \notin vsDone
    /\ modifyPlan' = plan_vs_modify(requirement, instances)
    /\ vsDone' = vsDone \cup {"plan"}
    /\ UNCHANGED <<instances, requirement, evaluation>>
    /\ UNCHANGED notVs

VsNext ==
    \/ EvaluateVisualStudio
    \/ PlanVsModify

----------------------------------------------------------------------------
(* Windows SDK component resolution: fix/visual_studio.py                  *)

\* A Windows SDK version "10.0.<build>.0" by its build; 0 is None.
SdkBuilds == {19041, 22621, 26100}

\* fallback_builds, visual_studio.py:416
fallback_builds == <<26100, 25398, 22621, 22000, 20348, 19041>>

\* An installer component id, visual_studio.py:422-424: the Windows 11 or the
\* Windows 10 SDK of a build; NoComponent is None.
ComponentId(family, build) == [family |-> family, build |-> build]
NoComponent == ComponentId(0, 0)

\* A requirement object without a preferred_version attribute (no version
\* and not None).
NoAttribute == 0 - 1

\* The manifest argument: None, a manifest whose windows_sdk is None, or one
\* with a Windows SDK requirement. The requirement is a WindowsSDKRequirement
\* as manifest_types.py:35-39 declares it, which has no preferred_version
\* attribute (NoAttribute), or an object that has the attribute the function
\* reads at visual_studio.py:184 and 411 and the calls of
\* tests/test_visual_studio_fix.py:61-96 give, None (0) or a version.
SdkManifests ==
    [kind : {"none", "nosdk"}, minimum_version : {0}, preferred_versions : {<<>>},
     preferred_version : {NoAttribute}]
    \cup [kind : {"sdk"}, minimum_version : {0, 22621, 26100},
          preferred_versions : {<<>>, <<26100>>},
          preferred_version : {NoAttribute, 0, 22621}]

\* The arguments and the machine of one call: the manifest, the versions
\* _list_installed_sdks finds, and available_components.
SdkCalls ==
    [manifest : SdkManifests,
     installed : SUBSET SdkBuilds,
     available : {{}, {ComponentId(11, 22621)}, {ComponentId(10, 19041)},
                  {ComponentId(10, 26100), ComponentId(11, 19041)},
                  {ComponentId(10, 18362)}}]

\* SDKResolution, visual_studio.py:55-60, or the exception that left the call
SDKResolution(satisfied, component_id, candidates) ==
    [raised |-> FALSE, satisfied |-> satisfied, component_id |-> component_id,
     candidates |-> candidates]
SdkRaised == [raised |-> TRUE, satisfied |-> FALSE, component_id |-> NoComponent,
              candidates |-> <<>>]
NoSdkResult == [raised |-> FALSE, satisfied |-> FALSE, component_id |-> NoComponent,
                candidates |-> <<>>]

\* add_version, visual_studio.py:404-409
add_version(builds, build) ==
    IF build = 0 \/ \E i \in 1..Len(builds) : builds[i] = build THEN builds
    ELSE Append(builds, build)

RECURSIVE AddAll(_, _)
AddAll(builds, more) ==
    IF more = <<>> THEN builds ELSE AddAll(add_version(builds, Head(more)), Tail(more))

\* _candidate_sdk_ids, visual_studio.py:401-425, for a requirement that has
\* the preferred_version attribute
_candidate_sdk_ids(sdk_requirement, min_version) ==
    LET first == add_version(<<>>, sdk_requirement.preferred_version)
        builds == AddAll(add_version(AddAll(first, sdk_requirement.preferred_versions), min_version),
                         fallback_builds)
    IN  [i \in 1..(2 * Len(builds)) |->
            ComponentId(IF i % 2 = 1 THEN 11 ELSE 10, builds[(i + 1) \div 2])]

\* visual_studio.py:205-211: the first candidate that is available, else the
\* first candidate
RECURSIVE FirstAvailable(_, _, _)
FirstAvailable(candidates, available, k) ==
    IF k > Len(candidates) THEN candidates[1]
    ELSE IF candidates[k] \in available THEN candidates[k]
    ELSE FirstAvailable(candidates, available, k + 1)

\* resolve_windows_sdk_component, visual_studio.py:177-214; reading
\* requirement.preferred_version (lines 184 and 411) raises AttributeError
\* when the requirement has no such attribute
resolve_windows_sdk_component(manifest, installed, available) ==
    LET has_attr == manifest.preferred_version # NoAttribute
        min_version == IF manifest.minimum_version # 0 \/ ~has_attr
                       THEN manifest.minimum_version ELSE manifest.preferred_version
        candidates == _candidate_sdk_ids(manifest, min_version)
    IN  IF manifest.kind # "sdk" THEN SDKResolution(TRUE, NoComponent, <<>>)
        ELSE IF min_version = 0 /\ ~has_attr THEN SdkRaised
        ELSE IF min_version = 0 THEN SDKResolution(TRUE, NoComponent, <<>>)
        ELSE IF \E v \in installed : v >= min_version
        THEN SDKResolution(TRUE, NoComponent, <<>>)
        ELSE IF ~has_attr THEN SdkRaised
        ELSE IF candidates = <<>> THEN SDKResolution(FALSE, NoComponent, <<>>)
        ELSE SDKResolution(FALSE, FirstAvailable(candidates, available, 1), candidates)

NoSdkCall ==
    [manifest |-> [kind |-> "none", minimum_version |-> 0, preferred_versions |-> <<>>,
                   preferred_version |-> NoAttribute],
     installed |-> {}, available |-> {}]

\* A call of resolve_windows_sdk_component is about to be made.
SdkInit ==
    /\ sdkCall \in SdkCalls
    /\ sdkResult = NoSdkResult
    /\ sdkReturned = FALSE

\* No SDK component is being resolved.
SdkIdle ==
    /\ sdkCall = NoSdkCall
    /\ sdkResult = NoSdkResult
    /\ sdkReturned = FALSE

\* resolve_windows_sdk_component, visual_studio.py:177-214, is called
ResolveWindowsSdkComponent ==
    /\ ~sdkReturned
    /\ sdkResult' = resolve_windows_sdk_component(sdkCall.manifest, sdkCall.installed,
                                                  sdkCall.available)
    /\ sdkReturned' = TRUE
    /\ UNCHANGED sdkCall
    /\ UNCHANGED notSdk

SdkNext == ResolveWindowsSdkComponent

----------------------------------------------------------------------------
(* The callers of generate_vsconfig: fix/visual_studio.py, cli.py          *)

\* ensure_vs_manifest_components, visual_studio.py:113-134: the text it has
\* generate_vsconfig write, "none" when it returns (or the SDK resolution
\* raises) before that call.  dry_run is not looked at before
\* modify_vs_install, visual_studio.py:138-145.
ensure_vs_manifest_components(required, setup_exe, sdk_resolution) ==
    IF ~required \/ ~setup_exe \/ sdk_resolution.raised THEN "none"
    ELSE IF ~sdk_resolution.satisfied /\ sdk_resolution.component_id = NoComponent
    THEN "none"
    ELSE IF sdk_resolution.component_id # NoComponent THEN "withSdk"
    ELSE "plain"

\* What resolve_windows_sdk_component can give for a manifest with a Windows
\* SDK requirement.
SdkResolutions ==
    {resolve_windows_sdk_component(call.manifest, call.installed, call.available) :
        call \in {c \in SdkCalls : c.manifest.kind = "sdk"}}

\* _apply_vs_manifest, pipeline.py:334-346, and handle_fix, cli.py:460-467:
\* ensure_vs_manifest_components is called with the run's dry_run, for a
\* manifest, a plan that requires a change or not, an installer that is found
\* or not, on a machine with any SDKs
EnsureVsManifestComponents ==
    \E manifest \in VsManifests, dry_run \in BOOLEAN, required \in BOOLEAN,
       setup_exe \in BOOLEAN, sdk_resolution \in SdkResolutions :
        LET text == ensure_vs_manifest_components(required, setup_exe, sdk_resolution)
            wrote == text # "none"
        IN  /\ vsconfig' = IF wrote THEN [vsconfig EXCEPT ![manifest] = text] ELSE vsconfig
            /\ lastWr' = [lastWr EXCEPT
                   !.op = "ensure", !.file = "vsconfig", !.preview = dry_run,
                   !.existed = (vsconfig[manifest] # "missing"),
                   !.wrote = wrote, !.backed = FALSE, !.again = FALSE,
                   !.kept = (vsconfig'[manifest] = vsconfig[manifest]),
                   !.same = (vsconfig'[manifest] = vsconfig[manifest])]
            /\ UNCHANGED <<cfg, tmpl, backups, now, update>>
            /\ UNCHANGED notWr

\* handle_fix, cli.py:445-480, without --apply: nothing is called
FixWithoutApply ==
    /\ lastWr' = [lastWr EXCEPT
           !.op = "fix", !.file = "none", !.preview = TRUE, !.existed = FALSE,
           !.wrote = FALSE, !.backed = FALSE, !.again = FALSE,
           !.kept = TRUE, !.same = TRUE]
    /\ UNCHANGED <<cfg, tmpl, vsconfig, backups, now, update>>
    /\ UNCHANGED notWr

GenNext ==
    \/ EnsureVsManifestComponents
    \/ FixWithoutApply
    \/ GenerateBuildConfiguration
    \/ GenerateVsconfig

----------------------------------------------------------------------------
(* Check results and their score: probe/base.py                            *)

\* CheckStatus, base.py:16-23
CheckStatus == {"PASS", "WARN", "FAIL", "SKIP", "N/A"}

\* CheckResult, base.py:35-45: what the model keeps of it
CheckResult(id, phase, status, details) ==
    [id |-> id, phase |-> phase, status |-> status, details |-> details]

\* _check, tests/test_scoring.py:23-38: a result of a given status
_check(status) == CheckResult("id", 0, status, "details")

\* Longest collection of check results that is scored.
MaxChecks == 4

\* A score: the number num / den, kept as the pair so that thirds are exact.
Ratio(num, den) == [num |-> num, den |-> den]

\* The loop of score_checks, base.py:140-151, from position k on: total is
\* kept in halves (total2 = 2 * total).  The variant that counts every check
\* takes N/A checks into the count.
RECURSIVE ScoreLoop(_, _, _, _, _)
ScoreLoop(list, k, total2, count, counted) ==
    IF k > Len(list) THEN [total2 |-> total2, count |-> count]
    ELSE LET status == list[k].status
         IN  IF status \notin counted THEN ScoreLoop(list, k + 1, total2, count, counted)
             ELSE ScoreLoop(list, k + 1,
                            total2 + (CASE status = "PASS" -> 2
                                        [] status = "WARN" -> 1
                                        [] status = "SKIP" -> 1
                                        [] OTHER -> 0),
                            count + 1, counted)

ScoreOf(list, counted) ==
    LET end == ScoreLoop(list, 1, 0, 0, counted)
    IN  IF end.count = 0 THEN [score |-> Ratio(0, 1), count |-> 0]
        ELSE [score |-> Ratio(end.total2 * 100, 2 * end.count), count |-> end.count]

\* score_checks with the N/A test of base.py:143-144 taken out
score_checks_counting_na(list) == ScoreOf(list, CheckStatus)

\* score_checks, base.py:137-154: (total / count) * 100.0 and count
score_checks(list) == ScoreOf(list, CheckStatus \ {"N/A"})

NoScore == [score |-> Ratio(0, 1), count |-> -1]

CheckLists == UNION {[1..n -> {_check(s) : s \in CheckStatus}] : n \in 0..MaxChecks}

\* A collection of check results is about to be scored.
ScoreInit ==
    /\ checks \in CheckLists
    /\ score = NoScore
    /\ scored = FALSE

\* Nothing is being scored.
ScoreIdle ==
    /\ checks = <<>>
    /\ score = NoScore
    /\ scored = FALSE

\* score_checks, base.py:137-154, is called
ScoreChecks ==
    /\ ~scored
    /\ score' = score_checks(checks)
    /\ scored' = TRUE
    /\ UNCHANGED checks
    /\ UNCHANGED notScore

ScoreNext == ScoreChecks

----------------------------------------------------------------------------
(* A scan: cli.py handle_scan and probe/runner.py run_scan                 *)

\* PHASE_MAP, runner.py:16-21, for the two phases the model runs; of each
\* phase's probe list the model keeps these probes, by the id of their result.
Phases == {1, 2}
PHASE_MAP ==
    [phase \in Phases |->
        IF phase = 1 THEN <<"toolchain.sdk", "toolchain.manifest">> ELSE <<"ue.root">>]

Profiles == {"workstation", "agent", "minimal"}

\* phase_mode, profile.py:35-54
phase_mode(profile, phase, has_ue_root) ==
    IF profile = "minimal"
    THEN (IF phase = 0 THEN "required" ELSE IF phase = 1 THEN "optional" ELSE "na")
    ELSE IF profile = "agent" /\ phase = 2
    THEN (IF has_ue_root THEN "required" ELSE "na")
    ELSE IF profile = "agent" /\ phase = 3 THEN "recommended"
    ELSE IF phase = 3 THEN "optional"
    ELSE "required"

\* What a probe does when called: it returns a CheckResult of a status, or an
\* exception leaves it (winreg.OpenKey denied in _collect_windows_sdks,
\* toolchain.py:121-131, subprocess.run failing with an OSError other than
\* FileNotFoundError in ProbeContext.run_command, base.py:116-132).
Raises == "raises"
ExcText == "exc"

\* check_manifest_compliance_failing: the probe with N/A replaced by FAIL
check_manifest_compliance_failing(manifest) ==
    IF manifest = "none" THEN {"FAIL"} ELSE {"PASS", "WARN", "FAIL", Raises}

\* check_manifest_compliance, toolchain.py:640-703: what it can answer for
\* ctx.manifest: N/A without a manifest, else the worst status of its sections
\* (whose evaluation can raise)
check_manifest_compliance(manifest) ==
    IF manifest = "none" THEN {"N/A"} ELSE {"PASS", "WARN", "FAIL", Raises}

\* what probe(ctx) can answer, runner.py:69
ProbeOutcomes(probe, manifest) ==
    IF probe = "toolchain.manifest" THEN check_manifest_compliance(manifest)
    ELSE {"PASS", "FAIL", Raises}

\* handle_scan's arguments with what resolve_manifest does for them: it
\* returns no manifest, returns a loaded one, or raises.
ScanArgs ==
    [phases : SUBSET Phases, profile : Profiles, has_ue_root : BOOLEAN,
     manifest : {"none", "loaded", Raises}]
NoScanArgs == [phases |-> {}, profile |-> "workstation", has_ue_root |-> FALSE,
               manifest |-> "none"]

\* The exception that ended the scan: where it was raised and its text.
Error(at, text) == [at |-> at, text |-> text]
NoError == Error("", "")

\* The phases run_scan's loop has still to visit, runner.py:46,51
Remaining == {p \in scanArgs.phases : p > scanPhase}
NextPhaseOf(remaining) == CHOOSE p \in remaining : \A q \in remaining : p <= q

\* results[phase] = bucket
SetBucket(results, phase, b) ==
    [p \in DOMAIN results \cup {phase} |-> IF p = phase THEN b ELSE results[p]]

\* [check for bucket in self.results.values() for check in bucket],
\* runner.py:35, over the phases from p on
RECURSIVE AllChecks(_, _)
AllChecks(results, p) ==
    IF p > 2 THEN <<>>
    ELSE (IF p \in DOMAIN results THEN results[p] ELSE <<>>) \o AllChecks(results, p + 1)

\* handle_scan is about to be called.
ScanInit ==
    /\ scanArgs \in ScanArgs
    /\ scanPc = "cli"
    /\ scanPhase = -1
    /\ bucket = <<>>
    /\ scanResults = <<>>
    /\ scanError = NoError
    /\ scanScore = NoScore

\* No scan is running.
ScanIdle ==
    /\ scanArgs = NoScanArgs
    /\ scanPc = "idle"
    /\ scanPhase = -1
    /\ bucket = <<>>
    /\ scanResults = <<>>
    /\ scanError = NoError
    /\ scanScore = NoScore

\* handle_scan, cli.py:152-179: resolve the manifest, build the ProbeContext
\* with manifest_res.manifest and call run_scan; an exception of
\* resolve_manifest leaves handle_scan
HandleScan ==
    /\ scanPc = "cli"
    /\ IF scanArgs.manifest = Raises
       THEN /\ scanPc' = "aborted"
            /\ scanError' = Error("resolve_manifest", ExcText)
       ELSE /\ scanPc' = "phases"
            /\ UNCHANGED scanError
    /\ UNCHANGED <<scanArgs, scanPhase, bucket, scanResults, scanScore>>
    /\ UNCHANGED notScan

\* run_scan, runner.py:51-67: the next phase begins; a phase whose mode is
\* "na" gets the one N/A result and the loop continues
NextPhase ==
    /\ scanPc = "phases"
    /\ Remaining # {}
    /\ LET phase == NextPhaseOf(Remaining)
       IN  /\ scanPhase' = phase
           /\ IF phase_mode(scanArgs.profile, phase, scanArgs.has_ue_root) = "na"
              THEN /\ scanResults' = SetBucket(scanResults, phase,
                                               <<CheckResult("phase.na", phase, "N/A", "")>>)
                   /\ UNCHANGED <<scanPc, bucket>>
              ELSE /\ scanPc' = "probes"
                   /\ bucket' = <<>>
                   /\ UNCHANGED scanResults
    /\ UNCHANGED <<scanArgs, scanError, scanScore>>
    /\ UNCHANGED notScan

\* run_scan, runner.py:68-70: bucket.append(probe(ctx)) for a probe that
\* returns; after the last probe results[phase] = bucket
ProbeReturns ==
    /\ scanPc = "probes"
    /\ LET probes == PHASE_MAP[scanPhase]
           probe == probes[Len(bucket) + 1]
       IN  \E status \in ProbeOutcomes(probe, scanArgs.manifest) \ {Raises} :
               LET grown == Append(bucket, CheckResult(probe, scanPhase, status, ""))
               IN  IF Len(grown) = Len(probes)
                   THEN /\ scanResults' = SetBucket(scanResults, scanPhase, grown)
                        /\ bucket' = <<>>
                        /\ scanPc' = "phases"
                   ELSE /\ bucket' = grown
                        /\ UNCHANGED <<scanResults, scanPc>>
    /\ UNCHANGED <<scanArgs, scanPhase, scanError, scanScore>>
    /\ UNCHANGED notScan

\* run_scan, runner.py:69: probe(ctx) raises; nothing in run_scan or
\* handle_scan catches, so the exception leaves both
ProbeRaises ==
    /\ scanPc = "probes"
    /\ LET probe == PHASE_MAP[scanPhase][Len(bucket) + 1]
       IN  /\ Raises \in ProbeOutcomes(probe, scanArgs.manifest)
           /\ scanError' = Error(probe, ExcText)
    /\ scanPc' = "aborted"
    /\ UNCHANGED <<scanArgs, scanPhase, bucket, scanResults, scanScore>>
    /\ UNCHANGED notScan

\* run_scan, runner.py:72-82, returns the ScanData; handle_scan, cli.py:180-187,
\* renders it (ScanData.total_score, runner.py:34-37) and returns 0
ReturnScan ==
    /\ scanPc = "phases"
    /\ Remaining = {}
    /\ scanPc' = "returned"
    /\ scanScore' = score_checks(AllChecks(scanResults, 1))
    /\ UNCHANGED <<scanArgs, scanPhase, bucket, scanResults, scanError>>
    /\ UNCHANGED notScan

ScanNext == HandleScan \/ NextPhase \/ ProbeReturns \/ ProbeRaises \/ ReturnScan

----------------------------------------------------------------------------
(* Probes in threads: probe/base.py run_parallel                           *)

\* Most callables handed to run_parallel.
MaxFunctions == 3

None == CheckResult("None", -1, "None", "")

\* The CheckResult the callable at an index (from 0) returns when it returns.
Returned(index, status) == CheckResult("check-" \o ToString(index), 0, status, "")

\* The except branch of _runner, base.py:165-174
Crashed(index) == CheckResult("probe-" \o ToString(index), -1, "FAIL", ExcText)

\* What func() gives in _runner: its result, or the synthetic result
Outcome(index, does) == IF does = Raises THEN Crashed(index) ELSE Returned(index, does)

\* _runner storing by completion: the result goes to the first free place
RECURSIVE FirstFree(_, _)
FirstFree(results, k) == IF results[k] = None THEN k ELSE FirstFree(results, k + 1)
_runner_appending(results, index, does) ==
    [results EXCEPT ![FirstFree(results, 1)] = Outcome(index, does)]

\* _runner, base.py:162-174: results[idx] = func(), or the synthetic FAIL
\* when func raises an Exception; index is _runner's idx, from 0
_runner(results, index, does) ==
    [results EXCEPT ![index + 1] = Outcome(index, does)]

FunctionLists == UNION {[1..n -> {"PASS", "WARN", Raises}] : n \in 0..MaxFunctions}

\* run_parallel has been called: results = [None] * len(functions) and the
\* threads are created (base.py:160, 176).
ParInit ==
    /\ functions \in FunctionLists
    /\ slots = [i \in 1..Len(functions) |-> None]
    /\ threadPc = [i \in 1..Len(functions) |-> "new"]
    /\ mainPc = "start"
    /\ mainIdx = 1
    /\ parOut = <<>>

\* run_parallel is not running.
ParIdle ==
    /\ functions = <<>>
    /\ slots = <<>>
    /\ threadPc = <<>>
    /\ mainPc = "idle"
    /\ mainIdx = 1
    /\ parOut = <<>>

\* base.py:177-178: thread.start() for the next thread; after the last one
\* the calling thread goes on to the joins
StartThread ==
    /\ mainPc = "start"
    /\ IF mainIdx > Len(functions)
       THEN /\ mainPc' = "join"
            /\ mainIdx' = 1
            /\ UNCHANGED threadPc
       ELSE /\ threadPc' = [threadPc EXCEPT ![mainIdx] = "started"]
            /\ mainIdx' = mainIdx + 1
            /\ UNCHANGED mainPc
    /\ UNCHANGED <<functions, slots, parOut>>
    /\ UNCHANGED notPar

\* a started thread runs _runner to its end
RunThread(i) ==
    /\ threadPc[i] = "started"
    /\ slots' = _runner(slots, i - 1, functions[i])
    /\ threadPc' = [threadPc EXCEPT ![i] = "done"]
    /\ UNCHANGED <<functions, mainPc, mainIdx, parOut>>
    /\ UNCHANGED notPar

\* base.py:179-180: thread.join() returns once that thread is done
JoinThread ==
    /\ mainPc = "join"
    /\ mainIdx <= Len(functions)
    /\ threadPc[mainIdx] = "done"
    /\ mainIdx' = mainIdx + 1
    /\ UNCHANGED <<functions, slots, threadPc, mainPc, parOut>>
    /\ UNCHANGED notPar

\* base.py:182: return [res for res in results if res is not None]
ReturnResults ==
    /\ mainPc = "join"
    /\ mainIdx > Len(functions)
    /\ parOut' = SelectSeq(slots, LAMBDA res : res # None)
    /\ mainPc' = "returned"
    /\ UNCHANGED <<functions, slots, threadPc, mainIdx>>
    /\ UNCHANGED notPar

ParNext ==
    \/ StartThread
    \/ \E i \in 1..Len(functions) : RunThread(i)
    \/ JoinThread
    \/ ReturnResults

----------------------------------------------------------------------------
(* The relaunch invocation: setup/pipeline.py _reconstruct_cli_args and    *)
(* cli.py build_parser, handle_setup                                       *)

\* DEFAULT_PHASES, profile.py:18-22
DEFAULT_PHASES(profile) == IF profile = "workstation" THEN <<0, 1, 2>> ELSE <<0, 1, 2, 3>>

\* An optional string that is None (or empty: the code tests truthiness).
NoArg == ""

\* SetupOptions, pipeline.py:88-114, as run_setup holds them at the relaunch of
\* pipeline.py:616-617: apply is set, and neither plan_only, dry_run nor elevated.
\* verbose, no_color and the splash flags only change what is printed and are
\* left out.
RelaunchOptions ==
    [phases : {<<1>>, <<0, 2>>},
     apply : {TRUE}, plan_only : {FALSE}, dry_run : {FALSE}, elevated : {FALSE},
     resume : BOOLEAN, include_horde : BOOLEAN, use_winget : BOOLEAN,
     profile : {"workstation", "agent"},
     manifest_arg : {NoArg, "ue_5.7"}, ue_version : {NoArg, "5.7"},
     ue_root : {NoArg, "D:/UE"},
     json_path : {"reports/r.json"}, log_path : {"logs/s.log"},
     vs_passive : BOOLEAN, run_prereqs : BOOLEAN,
     build_engine : BOOLEAN, build_targets : {<<>>, <<"UnrealPak">>}]

NoOptions ==
    [phases |-> <<>>, apply |-> FALSE, plan_only |-> FALSE, dry_run |-> FALSE,
     elevated |-> FALSE, resume |-> FALSE, include_horde |-> FALSE,
     use_winget |-> FALSE, profile |-> "workstation", manifest_arg |-> NoArg,
     ue_version |-> NoArg, ue_root |-> NoArg, json_path |-> NoArg, log_path |-> NoArg,
     vs_passive |-> FALSE, run_prereqs |-> FALSE, build_engine |-> FALSE,
     build_targets |-> <<>>]

\* ["--flag"] when on, pipeline.py:696-733
Flag(on, flag) == IF on THEN <<flag>> ELSE <<>>

\* args.extend([flag, value]) for each value of a list
RECURSIVE Repeated(_, _)
Repeated(flag, values) ==
    IF values = <<>> THEN <<>>
    ELSE <<flag, Head(values)>> \o Repeated(flag, Tail(values))

RECURSIVE Strs(_)
Strs(numbers) ==
    IF numbers = <<>> THEN <<>> ELSE <<ToString(Head(numbers))>> \o Strs(Tail(numbers))

\* _reconstruct_cli_args as it would be if the marker were passed on only
\* by a process that was itself started with it.
_reconstruct_cli_args_unmarked(o, include_elevation_flag) ==
    Repeated("--phase", Strs(o.phases))
    \o Flag(o.resume, "--resume")
    \o Flag(o.plan_only, "--plan")
    \o Flag(o.include_horde, "--include-horde")
    \o <<"--profile", o.profile>>
    \o (IF o.manifest_arg # NoArg THEN <<"--manifest", o.manifest_arg>>
        ELSE IF o.ue_version # NoArg THEN <<"--ue-version", o.ue_version>>
        ELSE <<>>)
    \o (IF o.use_winget THEN <<"--use-winget">> ELSE <<"--no-winget">>)
    \o (IF o.ue_root # NoArg THEN <<"--ue-root", o.ue_root>> ELSE <<>>)
    \o Flag(o.dry_run, "--dry-run")
    \o (IF o.json_path # NoArg THEN <<"--json", o.json_path>> ELSE <<>>)
    \o <<"--log", o.log_path>>
    \o Flag(o.apply, "--apply")
    \o Flag(~o.vs_passive, "--vs-interactive")
    \o Flag(o.build_engine, "--build-engine")
    \o Repeated("--build-target", o.build_targets)
    \o Flag(o.elevated, "--_elevated")

\* _reconstruct_cli_args, pipeline.py:692-735 (without --verbose, --no-color,
\* --no-splash)
_reconstruct_cli_args(o, include_elevation_flag) ==
    Repeated("--phase", Strs(o.phases))
    \o Flag(o.resume, "--resume")
    \o Flag(o.plan_only, "--plan")
    \o Flag(o.include_horde, "--include-horde")
    \o <<"--profile", o.profile>>
    \o (IF o.manifest_arg # NoArg THEN <<"--manifest", o.manifest_arg>>
        ELSE IF o.ue_version # NoArg THEN <<"--ue-version", o.ue_version>>
        ELSE <<>>)
    \o (IF o.use_winget THEN <<"--use-winget">> ELSE <<"--no-winget">>)
    \o (IF o.ue_root # NoArg THEN <<"--ue-root", o.ue_root>> ELSE <<>>)
    \o Flag(o.dry_run, "--dry-run")
    \o (IF o.json_path # NoArg THEN <<"--json", o.json_path>> ELSE <<>>)
    \o <<"--log", o.log_path>>
    \o Flag(o.apply, "--apply")
    \o Flag(~o.vs_passive, "--vs-interactive")
    \o Flag(o.build_engine, "--build-engine")
    \o Repeated("--build-target", o.build_targets)
    \o Flag(include_elevation_flag \/ o.elevated, "--_elevated")

\* The namespace of the setup sub-parser before any argument is read,
\* cli.py:34-48 and 94-141.  use_winget defaults to None ("none");
\* vs_passive is the dest of --vs-passive (store_true, default False) and of
\* --vs-interactive (store_false), and argparse gives a dest the default of
\* the first action that names it.
DefaultNamespace ==
    [phase |-> <<>>, resume |-> FALSE, plan |-> FALSE, include_horde |-> FALSE,
     profile |-> NoArg, manifest |-> NoArg, ue_version |-> NoArg,
     use_winget |-> "none", ue_root |-> NoArg, dry_run |-> FALSE, json |-> NoArg,
     log |-> NoArg, apply |-> FALSE, vs_passive |-> FALSE, run_prereqs |-> FALSE,
     build_engine |-> FALSE, build_targets |-> <<>>, _elevated |-> FALSE]

\* int(text) of the --phase argument, cli.py:98
int(text) == CHOOSE n \in 0..3 : ToString(n) = text

\* parse_args over the arguments from position k on
RECURSIVE parse_args(_, _, _)
parse_args(list, k, ns) ==
    IF k > Len(list) THEN ns
    ELSE LET flag == list[k]
             value == IF k < Len(list) THEN list[k + 1] ELSE NoArg
         IN  CASE flag = "--phase" ->
                    parse_args(list, k + 2, [ns EXCEPT !.phase = Append(@, int(value))])
               [] flag = "--build-target" ->
                    parse_args(list, k + 2, [ns EXCEPT !.build_targets = Append(@, value)])
               [] flag = "--profile" -> parse_args(list, k + 2, [ns EXCEPT !.profile = value])
               [] flag = "--manifest" -> parse_args(list, k + 2, [ns EXCEPT !.manifest = value])
               [] flag = "--ue-version" -> parse_args(list, k + 2, [ns EXCEPT !.ue_version = value])
               [] flag = "--ue-root" -> parse_args(list, k + 2, [ns EXCEPT !.ue_root = value])
               [] flag = "--json" -> parse_args(list, k + 2, [ns EXCEPT !.json = value])
               [] flag = "--log" -> parse_args(list, k + 2, [ns EXCEPT !.log = value])
               [] flag = "--resume" -> parse_args(list, k + 1, [ns EXCEPT !.resume = TRUE])
               [] flag = "--plan" -> parse_args(list, k + 1, [ns EXCEPT !.plan = TRUE])
               [] flag = "--include-horde" ->
                    parse_args(list, k + 1, [ns EXCEPT !.include_horde = TRUE])
               [] flag = "--use-winget" -> parse_args(list, k + 1, [ns EXCEPT !.use_winget = "yes"])
               [] flag = "--no-winget" -> parse_args(list, k + 1, [ns EXCEPT !.use_winget = "no"])
               [] flag = "--dry-run" -> parse_args(list, k + 1, [ns EXCEPT !.dry_run = TRUE])
               [] flag = "--apply" -> parse_args(list, k + 1, [ns EXCEPT !.apply = TRUE])
               [] flag = "--vs-passive" -> parse_args(list, k + 1, [ns EXCEPT !.vs_passive = TRUE])
               [] flag = "--vs-interactive" ->
                    parse_args(list, k + 1, [ns EXCEPT !.vs_passive = FALSE])
               [] flag = "--run-prereqs" ->
                    parse_args(list, k + 1, [ns EXCEPT !.run_prereqs = TRUE])
               [] flag = "--build-engine" ->
                    parse_args(list, k + 1, [ns EXCEPT !.build_engine = TRUE])
               [] flag = "--_elevated" -> parse_args(list, k + 1, [ns EXCEPT !._elevated = TRUE])
               [] OTHER -> parse_args(list, k + 1, ns)

\* handle_setup, cli.py:264-416, for a namespace with --apply and --_elevated,
\* where none of its prompts is reached (ue_version is kept as given)
handle_setup(ns, winget_available) ==
    LET profile == IF ns.profile = NoArg THEN "workstation" ELSE ns.profile
    IN  [phases |-> IF ns.phase = <<>> THEN DEFAULT_PHASES(profile) ELSE ns.phase,
         apply |-> ns.apply /\ ~ns.plan,
         plan_only |-> ns.plan,
         dry_run |-> ns.dry_run,
         elevated |-> ns._elevated,
         resume |-> ns.resume,
         include_horde |-> ns.include_horde,
         use_winget |-> IF ns.use_winget = "none" THEN winget_available
                        ELSE ns.use_winget = "yes",
         profile |-> profile,
         manifest_arg |-> ns.manifest,
         ue_version |-> ns.ue_version,
         ue_root |-> ns.ue_root,
         json_path |-> IF ns.json = NoArg THEN "reports/uecfg_report_now.json" ELSE ns.json,
         log_path |-> IF ns.log = NoArg THEN "logs/uecfg_setup_now.log" ELSE ns.log,
         vs_passive |-> ns.vs_passive,
         run_prereqs |-> ns.run_prereqs,
         build_engine |-> ns.build_engine,
         build_targets |-> ns.build_targets]

\* What the new process finds at pipeline.py:616: whether a step that needs
\* admin rights fails its check (_needs_admin) and whether the process holds
\* them (_is_admin).
NoGate == [needs_admin |-> FALSE, is_admin |-> FALSE]

\* run_setup is about to hand the run over.
ArgsInit ==
    /\ options \in RelaunchOptions
    /\ wingetAvailable \in BOOLEAN
    /\ argv = <<>>
    /\ childOptions = NoOptions
    /\ argsPc = "options"
    /\ childGate = NoGate

\* No relaunch is being prepared.
ArgsIdle ==
    /\ options = NoOptions
    /\ wingetAvailable = FALSE
    /\ argv = <<>>
    /\ childOptions = NoOptions
    /\ argsPc = "idle"
    /\ childGate = NoGate

\* _relaunch_elevated, pipeline.py:674-675: the arguments of the new process
ReconstructCliArgs ==
    /\ argsPc = "options"
    /\ argv' = <<"-m", "ue_configurator.cli", "setup">> \o _reconstruct_cli_args(options, TRUE)
    /\ argsPc' = "args"
    /\ UNCHANGED <<options, wingetAvailable, childOptions, childGate>>
    /\ UNCHANGED notArgs

\* the new process: main, cli.py:535-537 and 564-565, parses its arguments
\* and handle_setup builds its SetupOptions
HandleSetup ==
    /\ argsPc = "args"
    /\ childOptions' = handle_setup(parse_args(argv, 4, DefaultNamespace), wingetAvailable)
    /\ argsPc' = "parsed"
    /\ UNCHANGED <<options, wingetAvailable, argv, childGate>>
    /\ UNCHANGED notArgs

\* the new process at run_setup's gate, pipeline.py:616-617: whatever its
\* steps' checks answer and whether or not it holds admin rights, it hands
\* the run over again or goes on to its loop
ChildGate ==
    /\ argsPc = "parsed"
    /\ \E needs, admin \in BOOLEAN :
          /\ childGate' = [needs_admin |-> needs, is_admin |-> admin]
          /\ argsPc' = IF should_relaunch(needs, admin, childOptions)
                       THEN "child_relaunch" ELSE "child_loop"
    /\ UNCHANGED <<options, wingetAvailable, argv, childOptions>>
    /\ UNCHANGED notArgs

ArgsNext == ReconstructCliArgs \/ HandleSetup \/ ChildGate

----------------------------------------------------------------------------
(* Waiting on a child process: ProbeContext.run_command (probe/base.py),
   UBTRunner.run (ue/ubt_runner.py), modify_vs_install (fix/visual_studio.py) *)

\* The longest life, in clock ticks, of a child that exits by itself.
MaxLife == 3

\* A child that never exits; also the tick from which the clock is past every
\* timeout and every exit.
Never == MaxLife + 1

\* ProbeContext's own timeout, base.py:81 (20 seconds), in clock ticks
ContextTimeout == 2

Launchers == {"run_command", "UBTRunner.run", "modify_vs_install"}

\* The timeout argument of run_command: None (0) or a number of ticks. The
\* two other launchers take none.
Timeouts == {0, 1, MaxLife}

\* A launch: the launcher, the timeout argument, whether the executable can be
\* started, how long the child lives and the code it exits with.
CmdCalls ==
    { c \in [via : Launchers, timeout : Timeouts, starts : BOOLEAN,
             life : (0..MaxLife) \cup {Never}, returncode : {0, 1}] :
        c.via # "run_command" => c.timeout = 0 }

NoCmdCall == [via |-> "none", timeout |-> 0, starts |-> FALSE, life |-> 0, returncode |-> 0]

\* What a launcher hands back: a CommandResult, a UBTResult or UBTRunnerError,
\* a VSModifyOutcome; failed is how its caller reads it.
CmdResult(type, returncode, note) == [type |-> type, returncode |-> returncode, note |-> note]

NoCmdResult == CmdResult("none", 0, "")

\* run_command, base.py:107: effective_timeout = timeout or self.timeout
effective_timeout(timeout) == IF timeout # 0 THEN timeout ELSE ContextTimeout

\* The child has not exited yet.
ChildAlive == cmdCall.life = Never \/ elapsed < cmdCall.life

CmdInit ==
    /\ cmdCall \in CmdCalls
    /\ cmdPc = "call"
    /\ elapsed = 0
    /\ cmdResult = NoCmdResult

CmdIdle ==
    /\ cmdCall = NoCmdCall
    /\ cmdPc = "idle"
    /\ elapsed = 0
    /\ cmdResult = NoCmdResult

\* The child is started: subprocess.run of base.py:117 and ubt_runner.py:56,
\* subprocess.Popen of visual_studio.py:239. An executable that cannot be
\* started ends the call at once: run_command returns "not found"
\* (base.py:129-130), UBTRunner.run raises UBTRunnerError (ubt_runner.py:62-63),
\* modify_vs_install returns a failed outcome (visual_studio.py:246-250).
StartChild ==
    /\ cmdPc = "call"
    /\ IF cmdCall.starts
       THEN /\ cmdPc' = "waiting"
            /\ UNCHANGED cmdResult
       ELSE /\ cmdPc' = "returned"
            /\ cmdResult' =
                 CASE cmdCall.via = "run_command" -> CmdResult("CommandResult", -1, "not found")
                   [] cmdCall.via = "UBTRunner.run" -> CmdResult("UBTRunnerError", -1, "OSError")
                   [] OTHER -> CmdResult("VSModifyOutcome", -1, "Failed to launch Visual Studio Installer")
    /\ UNCHANGED <<cmdCall, elapsed>>
    /\ UNCHANGED notCmd

\* A tick of the clock. Past Never, later than every deadline and every exit
\* of the model, only the parity of the count is kept.
TickClock == elapsed' = (IF elapsed <= Never THEN elapsed + 1 ELSE Never)

\* The thread is blocked inside subprocess.run while the child lives: with
\* timeout=effective_timeout in run_command (base.py:117-126), with no timeout
\* argument in UBTRunner.run (ubt_runner.py:56-61).
SubprocessRunWaits ==
    /\ cmdPc = "waiting"
    /\ cmdCall.via \in {"run_command", "UBTRunner.run"}
    /\ ChildAlive
    /\ cmdCall.via = "run_command" => elapsed < effective_timeout(cmdCall.timeout)
    /\ TickClock
    /\ UNCHANGED <<cmdCall, cmdPc, cmdResult>>
    /\ UNCHANGED notCmd

\* modify_vs_install, visual_studio.py:256-273: one turn of `while True`:
\* process.poll() is None, a heartbeat line when due, time.sleep(5)
PollAndSleep ==
    /\ cmdPc = "waiting"
    /\ cmdCall.via = "modify_vs_install"
    /\ ChildAlive
    /\ TickClock
    /\ UNCHANGED <<cmdCall, cmdPc, cmdResult>>
    /\ UNCHANGED notCmd

\* run_command, base.py:127-128: subprocess.run raised TimeoutExpired (it has
\* killed the child); CommandResult(..., stderr "timeout", returncode=-1)
RunCommandTimesOut ==
    /\ cmdPc = "waiting"
    /\ cmdCall.via = "run_command"
    /\ ChildAlive
    /\ elapsed >= effective_timeout(cmdCall.timeout)
    /\ cmdResult' = CmdResult("CommandResult", -1, "timeout")
    /\ cmdPc' = "returned"
    /\ UNCHANGED <<cmdCall, elapsed>>
    /\ UNCHANGED notCmd

\* The child has exited and the launcher returns: run_command base.py:134,
\* UBTRunner.run ubt_runner.py:66-73, modify_vs_install visual_studio.py:258-296
ChildExited ==
    /\ cmdPc = "waiting"
    /\ ~ChildAlive
    /\ cmdResult' =
         CASE cmdCall.via = "run_command" -> CmdResult("CommandResult", cmdCall.returncode, "")
           [] cmdCall.via = "UBTRunner.run" -> CmdResult("UBTResult", cmdCall.returncode, "")
           [] OTHER -> CmdResult("VSModifyOutcome", cmdCall.returncode,
                                 IF cmdCall.returncode # 0
                                 THEN "Visual Studio Installer exited"
                                 ELSE "Visual Studio Installer completed.")
    /\ cmdPc' = "returned"
    /\ UNCHANGED <<cmdCall, elapsed>>
    /\ UNCHANGED notCmd

CmdNext ==
    \/ StartChild
    \/ SubprocessRunWaits
    \/ PollAndSleep
    \/ RunCommandTimesOut
    \/ ChildExited

----------------------------------------------------------------------------
(* The search step of ArtifactResolver.resolve, artifact_resolver.py:72-92,
   on a tree with more matches than ResolverSpec's, listed in rglob's order *)

\* resolve, artifact_resolver.py:91: candidates=candidates[:5]
ReportedCandidates == 5

\* The matching files of the tree: none is the canonical path (the search runs
\* only without it); two differ by the case of a directory name only.
SearchPaths ==
    { <<"Engine", "UnrealPak.exe">>,
      <<"Engine", "Plugins", "UnrealPak.exe">>,
      <<"Engine", "plugins", "UnrealPak.exe">>,
      <<"Engine", "Extras", "UnrealPak.exe">>,
      <<"Engine", "Saved", "UnrealPak.exe">>,
      <<"Engine", "Binaries", "Win64", "UnrealPak-Cmd.exe">>,
      <<"Engine", "Plugins", "Extras", "UnrealPak.exe">> }

\* _score_candidate of every path of the tree, computed once.
SearchScores == [f \in SearchPaths |-> _score_candidate(f)]

\* Every order in which rglob can yield a set of files.
Listings ==
    UNION { { l \in [1..Cardinality(fs) -> fs] :
                \A a, b \in 1..Cardinality(fs) : a # b => l[a] # l[b] } :
            fs \in SUBSET SearchPaths }

\* sorted(candidates, key=self._score_candidate)[0], artifact_resolver.py:82:
\* the sort is stable, so of the candidates with the least key the one listed
\* first comes first.
sorted_first(candidates) ==
    LET least == { k \in DOMAIN candidates :
                     \A j \in DOMAIN candidates :
                        ~ScoreLess(SearchScores[candidates[j]], SearchScores[candidates[k]]) }
        k0 == CHOOSE k \in least : \A j \in least : k <= j
    IN  candidates[k0]

\* candidates[:5]
FirstFive(candidates) ==
    SubSeq(candidates, 1, IF Len(candidates) < ReportedCandidates
                          THEN Len(candidates) ELSE ReportedCandidates)

\* resolve from the search on, artifact_resolver.py:80-92, for the candidates
\* in the order collected
search(t, candidates) ==
    LET resolved == IF candidates # <<>> THEN sorted_first(candidates) ELSE NoPath
    IN  [target |-> t, canonical |-> binary_path(t), resolved |-> resolved,
         found_via_search |-> resolved # NoPath,
         candidates |-> FirstFive(candidates)]

NoSearchOut == [target |-> "", canonical |-> NoPath, resolved |-> NoPath,
                found_via_search |-> FALSE, candidates |-> <<>>]

SearchInit ==
    /\ rglobbed \in Listings
    /\ searchOut = NoSearchOut
    /\ searchCache = NoEntries
    /\ searchDone = FALSE

SearchIdle ==
    /\ rglobbed = <<>>
    /\ searchOut = NoSearchOut
    /\ searchCache = NoEntries
    /\ searchDone = FALSE

\* resolve, artifact_resolver.py:72-92, reached with no canonical file and no
\* usable cache entry: the search, and _set_cache_path when it found something
SearchStep(t) ==
    /\ ~searchDone
    /\ LET r == search(t, rglobbed) IN
       /\ searchOut' = r
       /\ searchCache' = (IF r.resolved # NoPath
                          THEN _set_cache_path(searchCache, t, r.resolved)
                          ELSE searchCache)
    /\ searchDone' = TRUE
    /\ UNCHANGED rglobbed
    /\ UNCHANGED notSearch

SearchNext == \E t \in Targets : SearchStep(t)

----------------------------------------------------------------------------
(* Building the missing targets: build_missing_targets, ue/build_targets.py *)

\* The longest plan.
MaxTargets == 3

\* TargetBuildPlan, build_targets.py:31-42, by the fields the function reads
\* and writes: action is "SKIP" or "BUILD" as planned, result is the exit code
\* of the build (NoExit for None), error is whether an error text is set.
NoExit == 0 - 1
TargetBuildPlan(exists) ==
    [built |-> exists, action |-> IF exists THEN "SKIP" ELSE "BUILD",
     result |-> NoExit, error |-> FALSE]

\* determine_build_plan, build_targets.py:86-108: the plans it can hand over
BuildPlans ==
    UNION { { [i \in 1..n |-> TargetBuildPlan(b[i])] : b \in [1..n -> BOOLEAN] } :
            n \in 0..MaxTargets }

\* What one invocation of the runner and the resolve after it can give:
\* UBTRunnerError raised, or an exit code, and whether the artifact is found
\* afterwards.
RunOutcomes == [raised : BOOLEAN, returncode : {0, 1}, found : BOOLEAN]

\* BuildExecution, build_targets.py:51-55; failed_target by its position, 0
\* for None
BuildExecution(failed, failed_target) == [failed |-> failed, failed_target |-> failed_target]
NoExecution == BuildExecution(FALSE, 0)

\* The body of the loop after runner.run as it would be if a zero exit code
\* were taken for a built target.
after_run_trusting_exit(item, ran) ==
    IF ran.raised THEN [item |-> [item EXCEPT !.error = TRUE], failed |-> TRUE]
    ELSE IF ran.returncode # 0
    THEN [item |-> [item EXCEPT !.result = ran.returncode, !.error = TRUE], failed |-> TRUE]
    ELSE [item |-> [item EXCEPT !.result = ran.returncode, !.built = ran.found],
          failed |-> FALSE]

\* build_missing_targets, build_targets.py:140-173: the item after runner.run
\* and the resolve that follows, and whether the function returns failed
after_run(item, ran) ==
    IF ran.raised THEN [item |-> [item EXCEPT !.error = TRUE], failed |-> TRUE]
    ELSE IF ran.returncode # 0
    THEN [item |-> [item EXCEPT !.result = ran.returncode, !.error = TRUE], failed |-> TRUE]
    ELSE IF ~ran.found
    THEN [item |-> [item EXCEPT !.result = ran.returncode, !.built = FALSE, !.error = TRUE],
          failed |-> TRUE]
    ELSE [item |-> [item EXCEPT !.result = ran.returncode, !.built = TRUE],
          failed |-> FALSE]

BuildInit ==
    /\ buildPlan \in BuildPlans
    /\ buildDryRun \in BOOLEAN
    /\ buildIdx = 1
    /\ buildPc = "loop"
    /\ runnerCalls = <<>>
    /\ execution = NoExecution

BuildIdle ==
    /\ buildPlan = <<>>
    /\ buildDryRun = FALSE
    /\ buildIdx = 1
    /\ buildPc = "idle"
    /\ runnerCalls = <<>>
    /\ execution = NoExecution

\* build_targets.py:128-130: an item that is built is skipped
SkipBuilt ==
    /\ buildPc = "loop"
    /\ buildIdx <= Len(buildPlan)
    /\ buildPlan[buildIdx].built
    /\ buildIdx' = buildIdx + 1
    /\ UNCHANGED <<buildPlan, buildDryRun, buildPc, runnerCalls, execution>>
    /\ UNCHANGED notBuild

\* build_targets.py:136-138: in a dry run nothing is invoked
SkipDryRun ==
    /\ buildPc = "loop"
    /\ buildIdx <= Len(buildPlan)
    /\ ~buildPlan[buildIdx].built
    /\ buildDryRun
    /\ buildIdx' = buildIdx + 1
    /\ UNCHANGED <<buildPlan, buildDryRun, buildPc, runnerCalls, execution>>
    /\ UNCHANGED notBuild

\* build_targets.py:140-173: runner.run for the item, the resolve after it,
\* and the return on a failure
RunTarget ==
    /\ buildPc = "loop"
    /\ buildIdx <= Len(buildPlan)
    /\ ~buildPlan[buildIdx].built
    /\ ~buildDryRun
    /\ \E ran \in RunOutcomes :
          LET after == after_run(buildPlan[buildIdx], ran) IN
          /\ runnerCalls' = Append(runnerCalls, [at |-> buildIdx, ran |-> ran])
          /\ buildPlan' = [buildPlan EXCEPT ![buildIdx] = after.item]
          /\ IF after.failed
             THEN /\ execution' = BuildExecution(TRUE, buildIdx)
                  /\ buildPc' = "returned"
                  /\ UNCHANGED buildIdx
             ELSE /\ buildIdx' = buildIdx + 1
                  /\ UNCHANGED <<execution, buildPc>>
    /\ UNCHANGED buildDryRun
    /\ UNCHANGED notBuild

\* build_targets.py:174: the loop is over
ReturnExecution ==
    /\ buildPc = "loop"
    /\ buildIdx > Len(buildPlan)
    /\ execution' = BuildExecution(FALSE, 0)
    /\ buildPc' = "returned"
    /\ UNCHANGED <<buildPlan, buildDryRun, buildIdx, runnerCalls>>
    /\ UNCHANGED notBuild

BuildNext ==
    \/ SkipBuilt
    \/ SkipDryRun
    \/ RunTarget
    \/ ReturnExecution

----------------------------------------------------------------------------
(* The specifications *)

\* Everything but the setup pipeline, the lock, the resolver is at rest.
RestIdle == WrIdle /\ ManIdle /\ VsIdle /\ SdkIdle /\ ScoreIdle /\ ScanIdle /\ ParIdle /\ ArgsIdle /\ CmdIdle /\ SearchIdle /\ BuildIdle

\* The setup pipeline, the lock and the resolver are at rest.
CoreIdle == PipeIdle /\ LockIdle /\ ResIdle

Init == PipeInit /\ LockIdle /\ ResIdle /\ RestIdle

Next == PipeNext

\* The lock: NumProcs processes acquiring the same lock file, from any lock
\* file earlier runs can have left.
LockSpecInit == LockInit /\ PipeIdle /\ ResIdle /\ RestIdle

LockSpec == LockSpecInit /\ [][LockNext]_vars

\* The resolver: NumResolvers instances over one project root and cache file,
\* with files created and deleted between their calls.
ResolverSpecInit == ResInit /\ PipeIdle /\ LockIdle /\ RestIdle

ResolverSpec == ResolverSpecInit /\ [][ResNext]_vars

\* The configuration writer: plans and applies in any order over the
\* BuildConfiguration.xml earlier runs and the user can have left, while the
\* clock advances.
WriterSpecInit == WrInit /\ CoreIdle /\ ManIdle /\ VsIdle /\ SdkIdle /\ ScoreIdle /\ ScanIdle /\ ParIdle /\ ArgsIdle /\ CmdIdle /\ SearchIdle /\ BuildIdle

WriterSpec == WriterSpecInit /\ [][WrNext]_vars

\* The generators: generations in any order over the template and the
\* .vsconfig files earlier runs and the user can have left.
GeneratorSpecInit == GenInit /\ CoreIdle /\ ManIdle /\ VsIdle /\ SdkIdle /\ ScoreIdle /\ ScanIdle /\ ParIdle /\ ArgsIdle /\ CmdIdle /\ SearchIdle /\ BuildIdle

GeneratorSpec == GeneratorSpecInit /\ [][GenNext]_vars

\* Manifest resolution: resolve_manifest called with any arguments over any
\* catalog.
ManifestSpecInit == ManInit /\ CoreIdle /\ WrIdle /\ VsIdle /\ SdkIdle /\ ScoreIdle /\ ScanIdle /\ ParIdle /\ ArgsIdle /\ CmdIdle /\ SearchIdle /\ BuildIdle

ManifestSpec == ManifestSpecInit /\ [][ManNext]_vars

\* Visual Studio compliance: the evaluator and the planner called once each,
\* in either order, over any list of instances and any requirement.
VsSpecInit == VsInit /\ CoreIdle /\ WrIdle /\ ManIdle /\ SdkIdle /\ ScoreIdle /\ ScanIdle /\ ParIdle /\ ArgsIdle /\ CmdIdle /\ SearchIdle /\ BuildIdle

VsSpec == VsSpecInit /\ [][VsNext]_vars

\* Windows SDK resolution: resolve_windows_sdk_component called with any
\* manifest on any machine.
SdkSpecInit == SdkInit /\ CoreIdle /\ WrIdle /\ ManIdle /\ VsIdle /\ ScoreIdle /\ ScanIdle /\ ParIdle /\ ArgsIdle /\ CmdIdle /\ SearchIdle /\ BuildIdle

SdkSpec == SdkSpecInit /\ [][SdkNext]_vars

\* Scoring: score_checks called on any collection of at most MaxChecks check
\* results.
ScoreSpecInit == ScoreInit /\ CoreIdle /\ WrIdle /\ ManIdle /\ VsIdle /\ SdkIdle /\ ScanIdle /\ ParIdle /\ ArgsIdle /\ CmdIdle /\ SearchIdle /\ BuildIdle

ScoreSpec == ScoreSpecInit /\ [][ScoreNext]_vars

\* A scan: handle_scan with any phases, profile and outcome of the manifest
\* resolution, over probes that return any status or raise.
ScanSpecInit == ScanInit /\ CoreIdle /\ WrIdle /\ ManIdle /\ VsIdle /\ SdkIdle /\ ScoreIdle /\ ParIdle /\ ArgsIdle /\ CmdIdle /\ SearchIdle /\ BuildIdle

ScanSpec == ScanSpecInit /\ [][ScanNext]_vars

\* Probes in threads: run_parallel over any list of at most MaxFunctions
\* callables, the threads finishing in any order.
ParallelSpecInit == ParInit /\ CoreIdle /\ WrIdle /\ ManIdle /\ VsIdle /\ SdkIdle /\ ScoreIdle /\ ScanIdle /\ ArgsIdle /\ CmdIdle /\ SearchIdle /\ BuildIdle

ParallelSpec == ParallelSpecInit /\ [][ParNext]_vars

\* The relaunch invocation: any options run_setup can hold when it relaunches
\* are rebuilt into arguments, which the new process parses.
ArgsSpecInit == ArgsInit /\ CoreIdle /\ WrIdle /\ ManIdle /\ VsIdle /\ SdkIdle /\ ScoreIdle /\ ScanIdle /\ ParIdle /\ CmdIdle /\ SearchIdle /\ BuildIdle

ArgsSpec == ArgsSpecInit /\ [][ArgsNext]_vars

\* The search step of resolve on every set of matching files under Engine, in
\* every order the file system can enumerate them.
SearchSpecInit == SearchInit /\ CoreIdle /\ WrIdle /\ ManIdle /\ VsIdle /\ SdkIdle /\ ScoreIdle /\ ScanIdle /\ ParIdle /\ ArgsIdle /\ CmdIdle /\ BuildIdle

SearchSpec == SearchSpecInit /\ [][SearchNext]_vars

\* One call of build_missing_targets on every plan of up to MaxTargets
\* targets, with every outcome of every build.
BuildSpecInit == BuildInit /\ CoreIdle /\ WrIdle /\ ManIdle /\ VsIdle /\ SdkIdle /\ ScoreIdle /\ ScanIdle /\ ParIdle /\ ArgsIdle /\ CmdIdle /\ SearchIdle

BuildSpec == BuildSpecInit /\ [][BuildNext]_vars

\* One launch of a child process by each of the three launchers. The thread
\* that waits keeps running (weak fairness of its steps); nothing makes a
\* child exit that does not exit by itself.
CommandSpecInit == CmdInit /\ CoreIdle /\ WrIdle /\ ManIdle /\ VsIdle /\ SdkIdle /\ ScoreIdle /\ ScanIdle /\ ParIdle /\ ArgsIdle /\ SearchIdle /\ BuildIdle

CommandSpec == CommandSpecInit /\ [][CmdNext]_vars /\ WF_vars(CmdNext)

\* The setup pipeline: one run of run_setup over any step list, options, admin
\* right and state file.
Spec == Init /\ [][Next]_vars

----------------------------------------------------------------------------
(* Claims about the setup pipeline, checked under Spec *)

\* The log entries of one kind made for step id from the scan or the main loop.
Calls(kind, id, at) ==
    { k \in DOMAIN log : log[k].kind = kind /\ log[k].id = id /\ log[k].at = at }

Invoked(id) ==
    \E k \in DOMAIN log : log[k].id = id /\ log[k].kind \in {"check", "apply"}

\* C1: a step whose id the state loaded at start marks done never has its check
\* or its apply invoked in that run, neither by the elevation scan nor by the
\* main loop, and when the run has gone through the loop its status is DONE.
C1_LoadedDoneNeverInvoked ==
    \A i \in 1..Len(steps) :
        steps[i].id \in loaded =>
            /\ ~Invoked(steps[i].id)
            /\ (pc = "finished" => statuses[steps[i].id] = "DONE")

\* A resumed run that finished with an admin step taken from the state file as
\* DONE while another step was checked.
C1_Witness ==
    /\ pc = "finished"
    /\ \E i \in 1..Len(steps) :
          /\ steps[i].id \in loaded
          /\ steps[i].requires_admin
          /\ statuses[steps[i].id] = "DONE"
    /\ \E k \in DOMAIN log : log[k].kind = "apply"

\* C2: the main loop visits the steps in declared order, each once: the checks
\* it invokes come in increasing step position, at most one per step, and so do
\* the applies; and a run that got through the elevation gate and was not
\* killed evaluates every step whatever the earlier ones ended as: while the
\* loop is at a step it can go on, and at the end every step has a final
\* status, every step not done in the loaded state has had its check invoked
\* once, and every step that did not end DONE has had its apply invoked once.
C2_EveryStepEvaluatedOnce ==
    /\ \A a, b \in DOMAIN log :
          (a < b /\ log[a].at = "loop" /\ log[b].at = "loop"
             /\ log[a].kind = log[b].kind /\ log[a].kind \in {"check", "apply"})
          => log[a].id < log[b].id
    /\ (pc = "loop" /\ idx <= Len(steps)) =>
          ENABLED (LoopDone \/ LoopCheckTrue \/ LoopCheckFalse)
    /\ pc \in {"save_check", "save_apply"} =>
          ENABLED (SaveAfterCheck \/ SaveAfterApply)
    /\ pc = "finished" =>
          \A i \in 1..Len(steps) :
              LET id == steps[i].id IN
              /\ statuses[id] \in ApplyOutcomes
              /\ id \notin loaded => Cardinality(Calls("check", id, "loop")) = 1
              /\ statuses[id] # "DONE" => Cardinality(Calls("apply", id, "loop")) = 1

\* A finished run whose first step ended FAILED or BLOCKED and whose last step
\* still had its apply invoked.
C2_Witness ==
    /\ pc = "finished"
    /\ Len(steps) >= 2
    /\ statuses[steps[1].id] \in {"FAILED", "BLOCKED"}
    /\ Calls("apply", steps[Len(steps)].id, "loop") # {}

\* A log entry by which its step became DONE in this run.
BecameDone(e) ==
    /\ e.at = "loop"
    /\ \/ e.kind = "check" /\ e.res = TRUE
       \/ e.kind = "apply" /\ e.res = "DONE"

NothingApplied ==
    /\ stateWrites = 0
    /\ \A k \in DOMAIN log : log[k].kind \notin {"apply", "save"}

\* C4 as stated: once the scan found a not-done admin step failing its check in
\* a process without admin rights, the run never enters the main loop: it
\* requests the relaunch and returns with nothing applied or written.
C4_Original ==
    (pc \notin {"scan"} /\ needsAdmin /\ ~isAdmin) =>
        /\ pc \in {"gate", "relaunched", "crashed"}
        /\ NothingApplied

\* C4 amended: the same, for a run that is neither a dry run nor one started
\* with the already-elevated marker.
C4_DeferredUnlessDryRunOrElevated ==
    (pc \notin {"scan"} /\ needsAdmin /\ ~isAdmin /\ ~opt.dry_run /\ ~opt.elevated) =>
        /\ pc \in {"gate", "relaunched", "crashed"}
        /\ NothingApplied
        /\ pc = "gate" => (ENABLED RelaunchElevated /\ ~ENABLED EnterLoop)
        /\ pc = "relaunched" =>
              /\ log[Len(log)].kind = "relaunch"
              /\ exitCode \in {0, 1}

\* The run was handed over: the relaunch was requested after an admin step
\* failed its check in the scan, with nothing applied.
C4_Witness ==
    /\ pc = "relaunched"
    /\ needsAdmin /\ ~isAdmin
    /\ \E k \in DOMAIN log : log[k].kind = "check" /\ log[k].at = "scan" /\ log[k].res = FALSE
    /\ NothingApplied

----------------------------------------------------------------------------
(* Claims about the writers, checked under WriterSpec and GeneratorSpec *)

\* C11: an apply of a plan of the flag set applied last, made on a file that
\* already holds those flags, writes neither the file nor a backup file, and
\* leaves the file and the set of backup files as they were.
C11_SecondApplyWritesNothing ==
    (lastWr.op = "apply" /\ lastWr.again) =>
        /\ ~lastWr.wrote
        /\ ~lastWr.backed
        /\ lastWr.same

\* C12: whenever a call has written over a .vsconfig, a BuildConfiguration.xml
\* template or a user BuildConfiguration.xml that existed before it, the call
\* has written a backup file, and the content the file had is still in the
\* file or in a backup file.
C12_BackupBeforeEveryOverwrite ==
    (lastWr.existed /\ lastWr.wrote) =>
        /\ lastWr.backed
        /\ lastWr.kept

----------------------------------------------------------------------------
(* Claims about manifest resolution, checked under ManifestSpec *)

\* What the explicit version of the request resolves to on its own, exactly
\* or by the fallback to its minor version.
ExplicitTarget == _resolve_version_manifest(request.ue_version, manifestFiles)

\* What the explicit id of the request resolves to with no version and no
\* project root.
ExplicitIdAlone == resolve_manifest(request.manifest, NoVersion, NoRoot, manifestFiles)

\* C13: a call with an explicit version that resolves, and no explicit id,
\* returns the manifest of the explicit version, whatever version is detected
\* from the project root; a call with an explicit id returns the manifest and
\* source it returns with no version and no project root.
C13_ExplicitIdThenVersionThenDetected ==
    /\ (returned /\ request.manifest = NoName /\ ExplicitTarget.path # NoManifestPath) =>
          /\ ~resolution.raised
          /\ resolution.source = ExplicitTarget.path
          /\ resolution.manifest = ExplicitTarget.path.name.stem
    /\ (returned /\ request.manifest # NoName) =>
          /\ resolution.raised = ExplicitIdAlone.raised
          /\ resolution.manifest = ExplicitIdAlone.manifest
          /\ resolution.source = ExplicitIdAlone.source

\* The request names no id and a version X.Y.Z that has no manifest of its own
\* while X.Y has one.
PatchOfKnownMinor ==
    /\ request.manifest = NoName
    /\ ExplicitTarget.path # NoManifestPath
    /\ ExplicitTarget.note

\* C14: a call for a version X.Y.Z that has no manifest while X.Y has one
\* returns the X.Y manifest and a note; a call for a version that has its own
\* manifest returns no note.
C14_MinorFallbackSetsNote ==
    /\ (returned /\ PatchOfKnownMinor) =>
          /\ ~resolution.raised
          /\ resolution.manifest = ExplicitTarget.path.name.stem
          /\ resolution.note
    /\ (returned /\ request.manifest = NoName
          /\ ExplicitTarget.path # NoManifestPath /\ ~ExplicitTarget.note) =>
          ~resolution.note

\* A file of this stem is in the manifest directory or the working directory.
Known(stem) == stem \in manifestFiles.dir \/ Plain(stem) \in manifestFiles.cwd

\* No file is named after the version of these digit groups or after its
\* minor version.
NoManifestFor(digits) ==
    /\ ~Known(StemOf(VersionText(digits, FALSE)))
    /\ Len(digits) > 2 => ~Known(StemOf(VersionText(SubSeq(digits, 1, 2), FALSE)))

\* The request names a version with a minor that no manifest matches, an id,
\* if any, that names no file, and a project root, if any, whose version no
\* manifest matches.
UnknownMinor ==
    /\ Len(request.ue_version.digits) >= 2
    /\ NoManifestFor(request.ue_version.digits)
    /\ \/ request.manifest = NoName
       \/ /\ lower(request.manifest) \notin manifestFiles.cwd
          /\ ~Known(request.manifest.stem)
    /\ \/ request.ue_root.kind # "version"
       \/ NoManifestFor(detect_ue_version(request.ue_root).digits)

\* C15: a call for a version whose minor no manifest matches, with no id and
\* no detected version that resolves, does not raise and returns no manifest
\* and a failure reason that lists the available manifests.
C15_UnknownMinorReturnsCandidates ==
    (returned /\ UnknownMinor) =>
        /\ ~resolution.raised
        /\ resolution.manifest = ""
        /\ resolution.source = NoManifestPath
        /\ resolution.failure_reason
        /\ resolution.available = available_manifests(manifestFiles)

\* A call for 5.9 or 5.9.1 returned no manifest and listed the manifests of
\* the other minors.
C15_Witness ==
    /\ returned
    /\ UnknownMinor
    /\ request.ue_version.digits \in {<<5, 9>>, <<5, 9, 1>>}
    /\ resolution.failure_reason
    /\ {"ue_5.6", "ue_5.7"} \subseteq resolution.available

----------------------------------------------------------------------------
(* Claims about Visual Studio compliance, checked under VsSpec *)

\* The positions of the instances that pass the major and minimum-version
\* filter.
Filtered == { i \in 1..Len(instances) : PassesFilter(instances[i], requirement) }

\* The selection rule on a count of missing components: fewest missing, then
\* highest version.
BestBy(count(_)) ==
    { i \in Filtered : \A j \in Filtered :
        \/ count(j) > count(i)
        \/ /\ count(j) = count(i)
           /\ compare_versions(instances[i].version, instances[j].version) >= 0 }

\* The instances the rule selects, by the evaluator's and by the planner's
\* count of missing components.
MissingCount(i) == Cardinality(MissingExact(instances[i], requirement))
PlanMissingCount(i) ==
    Cardinality(_missing_components(requirement.requires_components, instances[i].packages))
BestByRule == BestBy(MissingCount)
PlanBestByRule == BestBy(PlanMissingCount)

\* The list in the opposite order of enumeration.
Reversed(list) == [i \in 1..Len(list) |-> list[Len(list) + 1 - i]]

\* C17: when some instance passes the filter, the evaluator's instance is one
\* the rule selects, status and missing components are the same for the list
\* enumerated in the opposite order, and with an instance whose package list
\* has every required component the status is PASS with no missing component.
C17_FewestMissingThenNewest ==
    ("evaluate" \in vsDone /\ Filtered # {}) =>
        /\ evaluation.selected \in BestByRule
        /\ LET other == _evaluate_visual_studio(requirement, Reversed(instances))
           IN  /\ other.status = evaluation.status
               /\ other.missing = evaluation.missing
        /\ (\E i \in Filtered : instances[i].packages # {} /\ MissingCount(i) = 0) =>
              /\ evaluation.status = "PASS"
              /\ evaluation.missing = {}

\* C18: when some instance passes the filter, a plan that is required targets
\* an instance the rule selects, and no plan is required when an instance that
\* passes the filter has every required component.
C18_PlanTargetsSelectedInstance ==
    ("plan" \in vsDone /\ Filtered # {}) =>
        /\ modifyPlan.required => modifyPlan.instance \in PlanBestByRule
        /\ (\E i \in Filtered : PlanMissingCount(i) = 0) => ~modifyPlan.required

\* C19: when the instances the rule selects have no package list, the status
\* is WARN; and the "unable to verify" warning is given only when an instance
\* the rule selects has no package list.
C19_UnverifiableSelectedWarns ==
    ("evaluate" \in vsDone /\ Filtered # {}) =>
        /\ (\A i \in BestByRule : instances[i].packages = {}) => evaluation.status = "WARN"
        /\ evaluation.unverified => \E i \in BestByRule : instances[i].packages = {}

----------------------------------------------------------------------------
(* Claims about Windows SDK resolution, checked under SdkSpec *)

\* C20: a call for a manifest whose Windows SDK requirement gives no minimum
\* version returns a resolution that is not satisfied and names no component.
C20_NoMinimumVersionFails ==
    (sdkReturned /\ sdkCall.manifest.kind = "sdk" /\ sdkCall.manifest.minimum_version = 0) =>
        /\ ~sdkResult.raised
        /\ ~sdkResult.satisfied
        /\ sdkResult.component_id = NoComponent

----------------------------------------------------------------------------
(* Claims about scoring, checked under ScoreSpec *)

\* The positions of the checks of a status.
WithStatus(s) == {i \in 1..Len(checks) : checks[i].status = s}

\* The checks that are not NOT_APPLICABLE, and twice the sum of their weights
\* (PASS 1.0, WARN 0.5, SKIP 0.5, FAIL 0.0).
Scorable == {i \in 1..Len(checks) : checks[i].status # "N/A"}
Weights2 ==
    2 * Cardinality(WithStatus("PASS")) + Cardinality(WithStatus("WARN"))
        + Cardinality(WithStatus("SKIP"))

\* C21: score_checks returns n, the number of checks that are not
\* NOT_APPLICABLE, and the score 100 * (sum of weights) / n, which lies in
\* [0, 100]; when n is 0 the score is 0.
C21_ScoreIsWeightedMean ==
    scored =>
        LET n == Cardinality(Scorable)
        IN  /\ score.count = n
            /\ score.score.den > 0
            /\ n > 0 => score.score.num * 2 * n = 100 * Weights2 * score.score.den
            /\ n = 0 => score.score.num = 0
            /\ 0 <= score.score.num
            /\ score.score.num <= 100 * score.score.den

\* A scored collection that holds a NOT_APPLICABLE check beside checks of
\* other weights, one whose mean is not a whole number of halves.
C21_Witness ==
    /\ scored
    /\ WithStatus("N/A") # {}
    /\ Cardinality(Scorable) = 3
    /\ Weights2 = 1

----------------------------------------------------------------------------
(* Claims about a scan, checked under ScanSpec *)

ScanEnded == scanPc \in {"returned", "aborted"}

\* The phases run_scan was asked for whose probes are to run.
Probed ==
    {p \in scanArgs.phases : phase_mode(scanArgs.profile, p, scanArgs.has_ue_root) # "na"}

\* C22: a scan whose manifest resolution did not raise returns its ScanData
\* whatever its probes do: no exception of a probe leaves it, and every probed
\* phase has one result per probe of the phase.
C22_BrokenProbeNeverAbortsScan ==
    (ScanEnded /\ scanArgs.manifest # Raises) =>
        /\ scanPc = "returned"
        /\ \A p \in Probed :
              /\ p \in DOMAIN scanResults
              /\ Len(scanResults[p]) = Len(PHASE_MAP[p])

\* The results of the manifest compliance probe the scan holds so far.
ComplianceResults ==
    {c \in {bucket[i] : i \in 1..Len(bucket)}
            \cup UNION {{scanResults[p][i] : i \in 1..Len(scanResults[p])} :
                        p \in DOMAIN scanResults} :
        c.id = "toolchain.manifest"}

\* C24: when resolve_manifest returns no manifest, handle_scan goes on to
\* run_scan, the compliance probe never raises and every result it gives is
\* NOT_APPLICABLE, and the count of the returned scan's score is the number of
\* results that are not NOT_APPLICABLE, so it leaves that result out.
C24_NoManifestIsNotApplicable ==
    scanArgs.manifest = "none" =>
        /\ scanError.at \notin {"resolve_manifest", "toolchain.manifest"}
        /\ \A c \in ComplianceResults : c.status = "N/A"
        /\ scanPc = "returned" =>
              LET all == AllChecks(scanResults, 1)
              IN  /\ 1 \in Probed => ComplianceResults # {}
                  /\ scanScore.count
                        = Cardinality({i \in 1..Len(all) : all[i].status # "N/A"})

\* A scan without a manifest has returned with the compliance probe's
\* NOT_APPLICABLE result beside a scored result.
C24_Witness ==
    /\ scanArgs.manifest = "none"
    /\ scanPc = "returned"
    /\ ComplianceResults # {}
    /\ scanScore.count > 0

----------------------------------------------------------------------------
(* Claims about probes in threads, checked under ParallelSpec *)

\* C23: the list run_parallel returns has one entry per callable, entry i
\* being what the i-th declared callable returned (the synthetic FAIL when it
\* raised), whatever the order in which the threads finished; so the score of
\* the list is that of the results taken in declaration order.
C23_ResultsInDeclarationOrder ==
    mainPc = "returned" =>
        LET declared == [i \in 1..Len(functions) |-> Outcome(i - 1, functions[i])]
        IN  /\ Len(parOut) = Len(functions)
            /\ \A i \in 1..Len(functions) :
                  /\ functions[i] # Raises => parOut[i] = Returned(i - 1, functions[i])
                  /\ functions[i] = Raises =>
                        /\ parOut[i].status = "FAIL"
                        /\ parOut[i].details = ExcText
                        /\ parOut[i].id = "probe-" \o ToString(i - 1)
            /\ score_checks(parOut) = score_checks(declared)

\* run_parallel has returned for three callables of which the second raised
\* and the others returned different statuses.
C23_Witness ==
    /\ mainPc = "returned"
    /\ functions = <<"PASS", Raises, "WARN">>

----------------------------------------------------------------------------
(* Further claims about the setup pipeline, checked under Spec *)

\* The relaunch was requested and the launch was rejected: the call raised or
\* answered a failure code.
RelaunchRejected ==
    /\ pc = "relaunched"
    /\ LET asked == log[Len(log)].res.answer
       IN  asked.raised \/ asked.ret <= 32

\* C25: when the elevated relaunch is rejected, run_setup logs the failure and
\* returns a non-zero code, and the run has invoked no step's apply and has
\* not written the state file.
C25_RejectedRelaunchExitsNonZero ==
    RelaunchRejected =>
        /\ exitCode > 0
        /\ log[Len(log)].res.message # ""
        /\ stateWrites = 0
        /\ \A k \in DOMAIN log : log[k].kind \notin {"apply", "save"}

\* The prompt was refused (a code up to 32, nothing raised) in a run resumed
\* from a state file that already held a step.
C25_Witness ==
    /\ RelaunchRejected
    /\ ~log[Len(log)].res.answer.raised
    /\ loaded # {}

----------------------------------------------------------------------------
(* Claims about the relaunch invocation, checked under ArgsSpec *)

\* The options that decide which steps run and what their apply does, and
\* where state and log go.
RoundTripFields ==
    {"phases", "apply", "plan_only", "dry_run", "resume", "include_horde",
     "use_winget", "profile", "ue_root", "log_path", "json_path", "vs_passive",
     "run_prereqs", "build_engine", "build_targets"}

\* The manifest reference of some options: the id when one was given, else
\* the version.
ManifestRef(o) ==
    IF o.manifest_arg # NoArg THEN <<"manifest", o.manifest_arg>>
    ELSE <<"ue_version", o.ue_version>>

\* C27: the options the new process builds from the rebuilt arguments are the
\* options of the process that relaunched, field by field and with the same
\* manifest reference, except that elevated is set.
C27_RelaunchArgsRoundTrip ==
    argsPc = "parsed" =>
        /\ \A f \in RoundTripFields : childOptions[f] = options[f]
        /\ ManifestRef(childOptions) = ManifestRef(options)
        /\ childOptions.elevated

----------------------------------------------------------------------------
(* A further claim about the generators, checked under GeneratorSpec *)

\* C26: a call made in a dry run, or by an invocation without --apply, writes
\* neither the .vsconfig nor the BuildConfiguration.xml template: both are as
\* they were before the call.
C26_GeneratedFilesOnlyOnApply ==
    lastWr.preview =>
        /\ ~lastWr.wrote
        /\ lastWr.same


----------------------------------------------------------------------------
(* Claims about preview runs of the pipeline, checked under Spec *)

\* The run was started with options.apply set: no confirmation was asked, and
\* the option still holds what the caller gave.
ApplyRequested ==
    /\ opt.apply
    /\ \A k \in DOMAIN log : log[k].kind # "prompt"

\* C28: in a run that is plan-only or was started without apply, no step's
\* apply is invoked and, once the run has ended, every step whose check
\* answered false in the main loop has status PENDING; in a plan-only run
\* moreover no check is invoked and the state file is never written.
C28_PreviewNeverApplies ==
    (opt.plan_only \/ ~ApplyRequested) =>
        /\ \A k \in DOMAIN log : log[k].kind # "apply"
        /\ pc \in {"finished", "returned"} =>
              \A k \in DOMAIN log :
                  (log[k].kind = "check" /\ log[k].at = "loop" /\ log[k].res = FALSE)
                  => statuses[log[k].id] = "PENDING"
        /\ opt.plan_only =>
              /\ stateWrites = 0
              /\ \A k \in DOMAIN log : log[k].kind \notin {"check", "save"}

----------------------------------------------------------------------------
(* Claims about waiting on child processes, checked under CommandSpec *)

\* C29: every launcher that has started a child and waits for it returns:
\* no call waits forever, whatever the child does.
C29_NoLauncherWaitsForever ==
    (cmdPc = "waiting") ~> (cmdPc = "returned")

----------------------------------------------------------------------------
(* The canonical path first, checked under ResolverSpec *)

\* C30: a resolve call made while the target's canonical path exists, after
\* any earlier resolves and file changes and whatever the instance's cache and
\* the cache file hold, returns the canonical path, not found via search, with
\* no candidates collected (no search ran), and changes neither any instance's
\* cache nor the cache file.
C30_CanonicalCheckedFirst ==
    [][ (lastOp' = "resolve" /\ binary_path(result'.target) \in files) =>
            /\ result'.resolved = binary_path(result'.target)
            /\ ~result'.found_via_search
            /\ result'.candidates = {}
            /\ rcache' = rcache
            /\ cacheFile' = cacheFile
      ]_vars

\* A resolve returned the canonical path, by an instance whose cache holds
\* another file that exists too: the result is not what the cache holds.
C30_Witness ==
    /\ lastOp = "resolve"
    /\ binary_path(result.target) \in files
    /\ result.resolved = binary_path(result.target)
    /\ rcache[result.by][result.target] # NoPath
    /\ rcache[result.by][result.target] \in files
    /\ rcache[result.by][result.target] # result.resolved

----------------------------------------------------------------------------
(* Claims about the search step, checked under SearchSpec *)

Listed(list) == { list[k] : k \in DOMAIN list }

\* C31: a search that found matching files resolves to the one candidate that
\* is below every other under the ordering (fewest parts, then the canonical
\* directory, then the path's text), whatever the order of enumeration; the
\* resolved path is among the candidates reported; and it is the cache's entry
\* for the target.
C31_SearchResolvesToMinimum ==
    (searchDone /\ rglobbed # <<>>) =>
        /\ searchOut.resolved \in Listed(rglobbed)
        /\ \A f \in Listed(rglobbed) \ {searchOut.resolved} :
              ScoreLess(SearchScores[searchOut.resolved], SearchScores[f])
        /\ searchOut.resolved \in Listed(searchOut.candidates)
        /\ searchCache[searchOut.target] = searchOut.resolved

----------------------------------------------------------------------------
(* The version window of the Visual Studio filter, checked under VsSpec *)

\* An instance is inside the manifest's window: the required major, not below
\* the minimum, and not above the maximum (the manifest's max_build, which the
\* loader stores as recommended_version) when there is one.
InsideWindow(inst, vs_req) ==
    /\ inst.version # <<>>
    /\ inst.version[1] = vs_req.required_major
    /\ vs_req.min_version # <<>> => compare_versions(inst.version, vs_req.min_version) >= 0
    /\ vs_req.recommended_version # <<>> =>
          compare_versions(inst.version, vs_req.recommended_version) <= 0

\* C32: the instance the evaluator names, and the instance the planner
\* targets, is inside the manifest's window; the evaluator reports PASS only
\* for an instance inside it.
C32_OnlyInstancesInsideWindow ==
    /\ ("evaluate" \in vsDone /\ evaluation.selected # 0) =>
          InsideWindow(instances[evaluation.selected], requirement)
    /\ ("plan" \in vsDone /\ modifyPlan.instance # 0) =>
          InsideWindow(instances[modifyPlan.instance], requirement)

----------------------------------------------------------------------------
(* No guessed installer component, checked under SdkSpec *)

\* The candidates of the call's requirement that the installer's catalog
\* offers, by their position in the ranking.
Offered ==
    { k \in DOMAIN sdkResult.candidates : sdkResult.candidates[k] \in sdkCall.available }

\* C33: a call that is given a catalog of available components and does not
\* find the requirement satisfied returns a resolution; a component id it
\* names is in the catalog and is the first candidate of the ranking that the
\* catalog offers; when the catalog offers no candidate it names none.
C33_ComponentIdIsOfferedByCatalog ==
    (sdkReturned /\ sdkCall.available # {} /\ sdkCall.manifest.kind = "sdk"
       /\ ~sdkResult.satisfied) =>
        /\ ~sdkResult.raised
        /\ sdkResult.component_id # NoComponent =>
              /\ sdkResult.component_id \in sdkCall.available
              /\ \E k \in Offered :
                    /\ sdkResult.candidates[k] = sdkResult.component_id
                    /\ \A j \in Offered : k <= j
        /\ Offered = {} => sdkResult.component_id = NoComponent

----------------------------------------------------------------------------
(* Claims about building the missing targets, checked under BuildSpec *)

\* An invocation of the runner ended in a failure: a launch error, a non-zero
\* exit code, or a zero exit code with the artifact still missing.
RunFailed(ran) == ran.raised \/ ran.returncode # 0 \/ ~ran.found

\* The runner is invoked only for entries planned as not built, in plan order,
\* and after an invocation that failed there is no other.
RunnerCallsInOrder ==
    /\ \A k \in DOMAIN runnerCalls : buildPlan[runnerCalls[k].at].action = "BUILD"
    /\ \A j, k \in DOMAIN runnerCalls : j < k => runnerCalls[j].at < runnerCalls[k].at
    /\ \A k \in DOMAIN runnerCalls : RunFailed(runnerCalls[k].ran) => k = Len(runnerCalls)
    /\ (runnerCalls # <<>> /\ RunFailed(runnerCalls[Len(runnerCalls)].ran)) =>
          /\ buildPc = "returned"
          /\ execution = BuildExecution(TRUE, runnerCalls[Len(runnerCalls)].at)

\* C34 as stated: the runner is invoked in plan order for entries that are not
\* built and never after a failure, and an execution returned as not failed
\* has every target of the plan built.
C34_Original ==
    /\ RunnerCallsInOrder
    /\ (buildPc = "returned" /\ ~execution.failed) =>
          \A i \in DOMAIN buildPlan : buildPlan[i].built

\* C34 amended: the same for a call that is not a dry run; in a dry run the
\* runner is never invoked, the plan is returned as it was and not failed.
C34_BuildsMissingUntilFirstFailure ==
    /\ RunnerCallsInOrder
    /\ (buildPc = "returned" /\ ~execution.failed /\ ~buildDryRun) =>
          \A i \in DOMAIN buildPlan : buildPlan[i].built
    /\ buildDryRun =>
          /\ runnerCalls = <<>>
          /\ ~execution.failed
          /\ \A i \in DOMAIN buildPlan :
                buildPlan[i] = TargetBuildPlan(buildPlan[i].action = "SKIP")

\* A call that built one target, failed on the next with a zero exit code and
\* no artifact, and returned without invoking the runner for the target after
\* it.
C34_Witness ==
    /\ buildPc = "returned"
    /\ execution.failed
    /\ Len(runnerCalls) = 2
    /\ ~runnerCalls[2].ran.raised /\ runnerCalls[2].ran.returncode = 0
    /\ runnerCalls[2].at < Len(buildPlan)
    /\ buildPlan[Len(buildPlan)].action = "BUILD"

----------------------------------------------------------------------------
(* Contention with a live holder, checked under LockSpec *)

\* C35: an interactive acquirer at a conflict leaves it by exactly one of:
\* SingleInstanceError, removing the lock on the operator's word and going
\* back to the exclusive create, or continuing without the lock; a process
\* that continues without the lock does not change or remove the lock file,
\* also not when it leaves, and changes nothing on the machine.
C35_ContentionSurfacedAndReadOnlyInert ==
    [][ \A p \in Procs :
          /\ (lpc[p] = "conflict" /\ lpc'[p] # "conflict") =>
                /\ lpc'[p] \in {"error", "create", "readonly"}
                /\ lpc'[p] = "error" => (hist'[p].error # "" /\ lockFile' = lockFile)
                /\ lpc'[p] = "create" => (hist'[p].forced /\ ~lockFile'.exists)
                /\ lpc'[p] = "readonly" => (hist'[p].readonly /\ lockFile' = lockFile)
          /\ (lpc[p] = "readonly" /\ (lpc'[p] # lpc[p] \/ hist'[p] # hist[p])) =>
                /\ lockFile' = lockFile
                /\ ~hist'[p].mutated ]_vars

----------------------------------------------------------------------------
(* What the pipeline records as done, checked under Spec *)

\* The log holds, for step id, a check that answered true or an apply that
\* answered DONE, made from the main loop.
EarnedDone(id) ==
    \E k \in DOMAIN log :
        /\ log[k].id = id
        /\ log[k].at = "loop"
        /\ \/ (log[k].kind = "check" /\ log[k].res = TRUE)
           \/ (log[k].kind = "apply" /\ log[k].res = "DONE")

\* C36: the completed set in memory never loses an id; an id in it was loaded
\* from the state file or its check answered true or its apply answered DONE;
\* a step whose apply answered FAILED, BLOCKED or SKIPPED, or that was left
\* PENDING, is not in the set, and every state file this run has written holds
\* no id the set does not hold.
C36_DoneOnlyGrowsAndIsEarned ==
    /\ [][state \subseteq state']_vars
    /\ [](\A id \in StepIds :
            /\ id \in state => (id \in loaded \/ EarnedDone(id))
            /\ id \in (state \ loaded) => statuses[id] = "DONE"
            /\ statuses[id] \in {"FAILED", "BLOCKED", "SKIPPED", "PENDING"} =>
                  id \notin state)
    /\ [](stateWrites > 0 => OnDisk(stateFile) \subseteq state)

\* A run that finished with one step's apply FAILED and another step done by
\* its apply: the file holds the second and not the first.
C36_Witness ==
    /\ pc = "finished"
    /\ \E i, j \in StepIds :
          /\ statuses[i] = "FAILED"
          /\ statuses[j] = "DONE" /\ j \notin loaded
          /\ \E k \in DOMAIN log : log[k] = Event("apply", j, "loop", "DONE")
          /\ OnDisk(stateFile) = {j}
          /\ state = {j}

----------------------------------------------------------------------------
(* The chain of relaunches, checked under ArgsSpec *)

\* C37: the process a relaunch starts carries the already-elevated marker, and
\* at its own gate it never hands the run over again, whatever its steps'
\* checks answer and whether or not it holds admin rights: it goes on to its
\* loop, so a chain of relaunches has one link.
C37_RelaunchAtMostOnce ==
    /\ argsPc # "child_relaunch"
    /\ argsPc \in {"parsed", "child_loop"} => childOptions.elevated
    /\ \A needs, admin \in BOOLEAN :
          argsPc = "parsed" => ~should_relaunch(needs, admin, childOptions)

\* The relaunched process found a step that needs admin rights failing its
\* check, held no admin rights, and went on to its loop.
C37_Witness ==
    /\ argsPc = "child_loop"
    /\ childGate.needs_admin
    /\ ~childGate.is_admin
    /\ ~childOptions.dry_run

----------------------------------------------------------------------------
(* What a dry run records, checked under Spec *)

\* The statuses an apply of the pipeline answers when it only simulates its
\* work: an installer or a batch script that is present, in a dry run.
DryRunStatuses == { run_batch(TRUE, TRUE, rc) : rc \in {0, 1} }

\* C38: in a dry run, a step whose apply answered what a simulated apply
\* answers is not marked done in memory, and once the run has saved its state
\* a later run that loads the file does not find the step done either.
C38_DryRunRecordsNothing ==
    opt.dry_run =>
        \A k \in DOMAIN log :
            (log[k].kind = "apply" /\ log[k].res \in DryRunStatuses) =>
                /\ ~is_done(state, log[k].id)
                /\ stateWrites > 0 => ~is_done(load_state(stateFile).completed, log[k].id)

----------------------------------------------------------------------------
(* Releasing the lock, checked under LockSpec *)

\* C39: a process that runs its _cleanup (on leaving the body or on a signal)
\* removes the lock file only if the file at the path is the one it created:
\* a file another process created after clearing its lock is left as it is.
C39_ReleaseRemovesOnlyOwnFile ==
    [][ \A p \in Procs :
          (~cleanup_done[p] /\ cleanup_done'[p] /\ lockFile.exists /\ lockFile.creator # p)
             => lockFile' = lockFile ]_vars

----------------------------------------------------------------------------
(* Loading the persisted state, checked under Spec *)

\* C40: loading the state file never ends the run: no exception leaves
\* load_state, and for a missing file, a file that is not JSON and a file of
\* JSON that is not an object the run goes on with an empty state.
C40_LoadStateNeverAborts ==
    /\ pc # "raised"
    /\ (opt.resume /\ pc # "start" /\ stateWrites = 0
          /\ stateFile.kind \in {"missing", "invalid", "nonobject"}) =>
             (loaded = {} /\ ~load_state(stateFile).raised)

====
